---- MODULE Spec2Model ----
(***************************************************************************)
(* Verification model of the realtime task board's coordination core:     *)
(* the lock service (services/lockService), the lock expiry scheduler     *)
(* (scheduler/lockExpiry) and the task rows they read and write.          *)
(*                                                                         *)
(* Every `await` of the source is a scheduling point: between the         *)
(* database statement an async function issues and the statement it       *)
(* issues next, any other request handler or scheduler callback may run.  *)
(* prisma.$transaction(async tx => ...) runs at the database's default    *)
(* isolation level (PostgreSQL: READ COMMITTED), which takes no lock on a *)
(* row that is only read, so the findUnique and the update of one         *)
(* transaction are two steps with other transactions' commits possible    *)
(* in between; the update and the commit that follows it are one step.    *)
(***************************************************************************)
EXTENDS Integers, Sequences, FiniteSets, TLC

\* ----------------------------------------------------------------- universe

Users == {"u1", "u2"}
TaskIds == {"T1", "T2", "T3"}
Kinds == {"drag", "edit"}
\* enum TStatus
Statuses == {"TODO", "PROGRESS", "DONE"}
\* the task rows present when the server starts
Seeded == {"T1"}

NullUser == "null"
NullTime == -1
NullStatus == "none"
\* the orderId of a row that does not exist
NullOrder == 0
\* no toast with a count has been shown
NoReport == -1
\* the contents a title route request can write
Titles == {"a", "b"}
NullTitle == "none"

\* scheduler/lockExpiry: const LOCK_EXPIRY_MS = 2 * 60 * 1000
LOCK_EXPIRY_MS == 2 * 60 * 1000
\* cron.schedule('*/30 * * * * *', ...): one callback every 30 seconds
CRON_PERIOD_MS == 30 * 1000

\* the clock runs from 0 to MaxClock cron periods
MaxClock == 5
\* number of client calls of the lock service in one behaviour
NumProcs == 3
\* number of scheduler callbacks that may be in progress at once
NumTicks == 1
\* number of mutation requests (reorder, status) in one behaviour of the board
NumReqs == 2
\* longest orderedIds of a reorder request
MaxIds == 3
\* number of flushQueue calls in one behaviour of the client
NumFlushes == 2
\* number of events the client enqueues in one behaviour
MaxEvents == 3
\* the client's Date.now() runs from 0 to MaxClientClock
MaxClientClock == 1

Procs == 1..NumProcs
Ticks == 1..NumTicks
Reqs == 1..NumReqs
Flushers == 1..NumFlushes

VARIABLES
    tasks,      \* ids of the task rows that exist
    lock,       \* lock[t][k]: the lock columns of row t for lock kind k
    now,        \* Date.now(), in ms
    lastTick,   \* the instant of the latest cron firing
    call,       \* call[p]: one client call of acquire*/release*
    tick,       \* tick[k]: one scheduler callback and its forceRelease calls
    orderId,    \* orderId[t]: the orderId column of row t
    status,     \* status[t]: the status column of row t
    title,      \* title[t]: the title and description columns of row t
    nextOrderId,\* the value the next created row gets as its orderId
    req,        \* req[r]: one request of PATCH /reorder, /:id/status or /:id/title
    store,      \* the client's IndexedDB object store 'events', in key order
    nextKey,    \* the next autoIncrement key of the store
    isFlushing, \* the ref isFlushing.current of useOfflineQueue
    flush,      \* flush[f]: one call of flushQueue
    net,        \* the server calls of the client that are awaiting their answer
    view,       \* the tasks state of BoardPage: the cards the client shows
    cleared     \* history: the key the store had reached when clearQueue ran

boardVars == <<orderId, status, title, nextOrderId, req>>

clientVars == <<store, nextKey, isFlushing, flush, net, view, cleared>>

vars == <<tasks, lock, now, lastTick, call, tick, boardVars, clientVars>>

\* ------------------------------------------------------------------- values

\* isLocked / lockAcquiredBy / lockAcquireTime (isEditLocked / ... for "edit")
FreeLock == [held |-> FALSE, by |-> NullUser, at |-> NullTime]

\* data: { isLocked: true, lockAcquiredBy: userId, lockAcquireTime: new Date() }
HeldLock(u, t) == [held |-> TRUE, by |-> u, at |-> t]

ReleaseDataKeepsLock(row) == row

ReleaseDataKeepsHolder(row) == [row EXCEPT !.held = FALSE]

\* data: { isLocked: false, lockAcquiredBy: null, lockAcquireTime: null } of release
ReleaseData(row) == [held |-> FALSE, by |-> NullUser, at |-> NullTime]

\* the same data, written by forceRelease
ForceReleaseData(row) == [held |-> FALSE, by |-> NullUser, at |-> NullTime]

IdleCall ==
    [op |-> "none", task |-> "none", kind |-> "none", user |-> NullUser,
     pc |-> "idle", saw |-> "none", ret |-> "none", lockedBy |-> NullUser,
     emitted |-> "none", freed |-> FALSE]

IdleFr == [pc |-> "none", ret |-> "none", emitted |-> "none"]

IdleTick ==
    [phase |-> "idle", threshold |-> NullTime,
     fr |-> [t \in TaskIds |-> [k \in Kinds |-> IdleFr]]]

LockEventDragOnly(k, what) ==
    CASE what = "acquired" -> "task:lock_acquired"
      [] what = "released" -> "task:lock_released"
      [] what = "expired"  -> "task:lock_expired"

LockEventAlwaysReleased(k, what) ==
    CASE k = "drag" /\ what = "acquired" -> "task:lock_acquired"
      [] k = "drag" /\ what \in {"released", "expired"} -> "task:lock_released"
      [] k = "edit" /\ what = "acquired" -> "task:edit_lock_acquired"
      [] k = "edit" /\ what \in {"released", "expired"} -> "task:edit_lock_released"

\* the socket.io event names of the lock service
LockEvent(k, what) ==
    CASE k = "drag" /\ what = "acquired" -> "task:lock_acquired"
      [] k = "drag" /\ what = "released" -> "task:lock_released"
      [] k = "drag" /\ what = "expired"  -> "task:lock_expired"
      [] k = "edit" /\ what = "acquired" -> "task:edit_lock_acquired"
      [] k = "edit" /\ what = "released" -> "task:edit_lock_released"
      [] k = "edit" /\ what = "expired"  -> "task:edit_lock_expired"

\* history: a release or force-release has freed lock (t, k); every call on
\* that lock that has already read it is marked
MarkFreed(c, t, k) ==
    [p \in Procs |->
        IF c[p].op # "none" /\ c[p].task = t /\ c[p].kind = k
        THEN [c[p] EXCEPT !.freed = TRUE] ELSE c[p]]

\* history: a writer other than request r has written a row; every request
\* that has started is marked
MarkDirty(q, r) ==
    [x \in Reqs |->
        IF x # r /\ q[x].op # "none" THEN [q[x] EXCEPT !.dirty = TRUE] ELSE q[x]]

\* calls start in slot order
MayStart(p) ==
    /\ call[p].pc = "idle"
    /\ \A q \in Procs : q < p => call[q].pc # "idle"

\* a request of PATCH /reorder or PATCH /:id/status; before, col, dirty and
\* batches are history: the orderId column and the members of the dragged
\* task's column when the request arrived, whether another writer has written
\* since, and the number of batches the request has committed
IdleReq ==
    [op |-> "none", task |-> "none", user |-> NullUser, ids |-> <<>>,
     to |-> NullStatus, pc |-> "idle", ret |-> "none", emitted |-> <<>>,
     before |-> <<>>, col |-> {}, dirty |-> FALSE, batches |-> 0]

\* one call of flushQueue: events is the array getAllEvents returned and i the
\* place of the for loop in it, step the server call replayOne awaits and ok
\* whether the mutation of the entry has succeeded, left and j the leftovers
\* and the place of the loop that removes them, calls and reqs the numbers of
\* lock calls and of mutation requests it has issued. History: noop, the call
\* returned at the isFlushing test; attempted, the keys of the entries
\* replayOne has been called for; skipped, those it returned false for;
\* applied, those whose mutation request has written to the database;
\* reported, the number of the toast at the end of the replay (0 for "All
\* offline changes synced!")
IdleFlush ==
    [pc |-> "idle", events |-> <<>>, i |-> 0, step |-> "none", ok |-> FALSE,
     left |-> <<>>, j |-> 0, calls |-> 0, reqs |-> 0, noop |-> FALSE,
     attempted |-> {}, skipped |-> {}, applied |-> {}, reported |-> NoReport]

\* --------------------------------------------------------------------- Init

\* the rows are created one after another: the n-th row gets orderId n
SeedOrderId(t) == CASE t = "T1" -> 1 [] t = "T2" -> 2 [] t = "T3" -> 3

\* status: parsed.data.status ?? 'TODO'
SeedStatus(t) == "TODO"

\* title: parsed.data.title of the request that created the row
SeedTitle(t) == "a"

\* the database after the rows S have been created, nobody holding a lock
InitRows(S) ==
    /\ tasks = S
    /\ lock = [t \in TaskIds |-> [k \in Kinds |-> FreeLock]]
    /\ orderId = [t \in TaskIds |-> IF t \in S THEN SeedOrderId(t) ELSE NullOrder]
    /\ status = [t \in TaskIds |-> IF t \in S THEN SeedStatus(t) ELSE NullStatus]
    /\ title = [t \in TaskIds |-> IF t \in S THEN SeedTitle(t) ELSE NullTitle]
    /\ nextOrderId = Cardinality(S) + 1

\* no request, call or callback has started; the client's queue is empty
InitIdle ==
    /\ now = 0
    /\ lastTick = NullTime
    /\ call = [p \in Procs |-> IdleCall]
    /\ tick = [k \in Ticks |-> IdleTick]
    /\ req = [r \in Reqs |-> IdleReq]
    /\ store = <<>>
    /\ nextKey = 1
    /\ isFlushing = FALSE
    /\ flush = [f \in Flushers |-> IdleFlush]
    /\ net = {}
    /\ view = <<>>
    /\ cleared = 0

Init == InitRows(Seeded) /\ InitIdle

\* -------------------------------------------------- acquireLock / acquireEditLock

AcquireSawRefreshes(t, k, u) ==
    IF t \notin tasks THEN "missing"
    ELSE IF lock[t][k].held /\ lock[t][k].by # u THEN "other"
    ELSE "free"

AcquireSawSteals(t, k, u) ==
    IF t \notin tasks THEN "missing"
    ELSE IF lock[t][k].held /\ lock[t][k].by = u THEN "self"
    ELSE "free"

AcquireSawEitherKind(t, k, u) ==
    IF t \in tasks /\ \E j \in Kinds : lock[t][j].held /\ lock[t][j].by # u
    THEN "other"
    ELSE AcquireSawSteals(t, k, u)

AcquireSawIgnoresMissing(t, k, u) ==
    IF t \in tasks /\ lock[t][k].held /\ lock[t][k].by # u THEN "other"
    ELSE IF t \in tasks /\ lock[t][k].held /\ lock[t][k].by = u THEN "self"
    ELSE "free"

\* what the transaction's findUnique finds, relative to userId
AcquireSaw(t, k, u) ==
    IF t \notin tasks THEN "missing"
    ELSE IF lock[t][k].held /\ lock[t][k].by # u THEN "other"
    ELSE IF lock[t][k].held /\ lock[t][k].by = u THEN "self"
    ELSE "free"

\* tx.task.findUnique and the three early exits of the transaction callback
AcquireRead(p, t, k, u) ==
    /\ MayStart(p)
    /\ LET saw == AcquireSaw(t, k, u)
           c0 == [IdleCall EXCEPT !.op = "acquire", !.task = t, !.kind = k,
                                  !.user = u, !.saw = saw]
       IN call' = [call EXCEPT ![p] =
            CASE saw = "missing" -> [c0 EXCEPT !.pc = "done", !.ret = "notfound"]
              [] saw = "other"   -> [c0 EXCEPT !.pc = "done", !.ret = "false",
                                               !.lockedBy = lock[t][k].by]
              [] saw = "self"    -> [c0 EXCEPT !.pc = "emit", !.ret = "true"]
              [] saw = "free"    -> [c0 EXCEPT !.pc = "write"]]
    /\ UNCHANGED <<tasks, lock, now, lastTick, tick, boardVars, clientVars>>

\* tx.task.update({ isLocked: true, lockAcquiredBy: userId, lockAcquireTime: new Date() })
\* and the commit; on a row deleted meanwhile the update throws
AcquireWrite(p) ==
    /\ call[p].op = "acquire" /\ call[p].pc = "write"
    /\ LET t == call[p].task
           k == call[p].kind
       IN IF t \in tasks
          THEN /\ lock' = [lock EXCEPT ![t][k] = HeldLock(call[p].user, now)]
               /\ call' = [call EXCEPT ![p].pc = "emit", ![p].ret = "true"]
          ELSE /\ lock' = lock
               /\ call' = [call EXCEPT ![p].pc = "done", ![p].ret = "error"]
    /\ UNCHANGED <<tasks, now, lastTick, tick, boardVars, clientVars>>

\* if (result.success) { await prisma.user.findUnique(...); io.emit(...) }
AcquireEmits(p) ==
    /\ call[p].op = "acquire" /\ call[p].pc = "emit"
    /\ call' = [call EXCEPT ![p].pc = "done",
                            ![p].emitted = LockEvent(call[p].kind, "acquired")]

\* the same, with no client connected
AcquireEmit(p) ==
    /\ AcquireEmits(p)
    /\ UNCHANGED <<tasks, lock, now, lastTick, tick, boardVars, clientVars>>

\* -------------------------------------------------- releaseLock / releaseEditLock

ReleaseAllowedAnyHolder(t, k, u) ==
    /\ t \in tasks
    /\ lock[t][k].held

\* the holder test of release: held, and by exactly userId
ReleaseAllowed(t, k, u) ==
    /\ t \in tasks
    /\ lock[t][k].held
    /\ lock[t][k].by = u

\* prisma.task.findUnique and the two early returns
ReleaseRead(p, t, k, u) ==
    /\ MayStart(p)
    /\ LET c0 == [IdleCall EXCEPT !.op = "release", !.task = t, !.kind = k,
                                  !.user = u]
       IN call' = [call EXCEPT ![p] =
            IF ReleaseAllowed(t, k, u)
            THEN [c0 EXCEPT !.pc = "write", !.saw = "self"]
            ELSE [c0 EXCEPT !.pc = "done", !.ret = "false",
                            !.saw = AcquireSaw(t, k, u)]]
    /\ UNCHANGED <<tasks, lock, now, lastTick, tick, boardVars, clientVars>>

\* prisma.task.update({ isLocked: false, lockAcquiredBy: null, lockAcquireTime: null })
ReleaseWrite(p) ==
    /\ call[p].op = "release" /\ call[p].pc = "write"
    /\ LET t == call[p].task
           k == call[p].kind
       IN IF t \in tasks
          THEN /\ lock' = [lock EXCEPT ![t][k] = ReleaseData(lock[t][k])]
               /\ call' = [MarkFreed(call, t, k) EXCEPT ![p].pc = "emit"]
          ELSE /\ lock' = lock
               /\ call' = [call EXCEPT ![p].pc = "done", ![p].ret = "error"]
    /\ UNCHANGED <<tasks, now, lastTick, tick, boardVars, clientVars>>

\* io.emit('task:lock_released', { taskId }); return true
ReleaseEmits(p) ==
    /\ call[p].op = "release" /\ call[p].pc = "emit"
    /\ call' = [call EXCEPT ![p].pc = "done", ![p].ret = "true",
                            ![p].emitted = LockEvent(call[p].kind, "released")]

\* the same, with no client connected
ReleaseEmit(p) ==
    /\ ReleaseEmits(p)
    /\ UNCHANGED <<tasks, lock, now, lastTick, tick, boardVars, clientVars>>

\* ------------------------------------------------------------ clock

\* one cron period passes; the callback of the current period has fired
ClockAdvance ==
    /\ lastTick = now
    /\ now + CRON_PERIOD_MS <= MaxClock * CRON_PERIOD_MS
    /\ now' = now + CRON_PERIOD_MS
    /\ UNCHANGED <<tasks, lock, lastTick, call, tick, boardVars, clientVars>>

\* ------------------------------------------------- router.delete('/:id')

\* prisma.task.delete({ where: { id } }): the row, with its lock columns, is gone
DeleteRow(t) ==
    /\ t \in tasks
    /\ tasks' = tasks \ {t}
    /\ lock' = [lock EXCEPT ![t] = [k \in Kinds |-> FreeLock]]
    /\ orderId' = [orderId EXCEPT ![t] = NullOrder]
    /\ status' = [status EXCEPT ![t] = NullStatus]
    /\ title' = [title EXCEPT ![t] = NullTitle]
    /\ req' = MarkDirty(req, 0)

\* the route, for a request of a client this model does not follow
DeleteTask(t) ==
    /\ DeleteRow(t)
    /\ UNCHANGED <<now, lastTick, call, tick, nextOrderId, clientVars>>

\* --------------------------------------- forceReleaseLock / forceReleaseEditLock

\* prisma.task.findUnique({ select: { isLocked } }); if (!task || !task.isLocked) return false
ForceReleaseRead(i, t, k) ==
    /\ tick[i].fr[t][k].pc = "read"
    /\ tick' = [tick EXCEPT ![i].fr[t][k] =
            IF t \in tasks /\ lock[t][k].held
            THEN [@ EXCEPT !.pc = "write"]
            ELSE [@ EXCEPT !.pc = "done", !.ret = "false"]]
    /\ UNCHANGED <<tasks, lock, now, lastTick, call, boardVars, clientVars>>

\* prisma.task.update({ isLocked: false, lockAcquiredBy: null, lockAcquireTime: null });
\* on a row deleted meanwhile the update throws
ForceReleaseWrite(i, t, k) ==
    /\ tick[i].fr[t][k].pc = "write"
    /\ IF t \in tasks
       THEN /\ lock' = [lock EXCEPT ![t][k] = ForceReleaseData(lock[t][k])]
            /\ call' = MarkFreed(call, t, k)
            /\ tick' = [tick EXCEPT ![i].fr[t][k].pc = "emit"]
       ELSE /\ lock' = lock
            /\ call' = call
            /\ tick' = [tick EXCEPT ![i].fr[t][k].pc = "done",
                                    ![i].fr[t][k].ret = "threw"]
    /\ UNCHANGED <<tasks, now, lastTick, boardVars, clientVars>>

\* io.emit('task:lock_expired', { taskId }); return true
ForceReleaseEmits(i, t, k) ==
    /\ tick[i].fr[t][k].pc = "emit"
    /\ tick' = [tick EXCEPT ![i].fr[t][k] =
            [pc |-> "done", ret |-> "true", emitted |-> LockEvent(k, "expired")]]

\* the same, with no client connected
ForceReleaseEmit(i, t, k) ==
    /\ ForceReleaseEmits(i, t, k)
    /\ UNCHANGED <<tasks, lock, now, lastTick, call, boardVars, clientVars>>

\* ------------------------------------------------- startLockExpiryScheduler

ExpiredAtThreshold(k, threshold) ==
    {t \in tasks : lock[t][k].held /\ lock[t][k].at <= threshold}

\* findMany({ where: { isLocked: true, lockAcquireTime: { lt: expiryThreshold } } })
Expired(k, threshold) ==
    {t \in tasks : lock[t][k].held /\ lock[t][k].at < threshold}

\* expired.map((task) => forceRelease(task.id)): every call issues its findUnique
StartForceReleases(fr, k, S) ==
    [t \in TaskIds |->
        IF t \in S THEN [fr[t] EXCEPT ![k] = [IdleFr EXCEPT !.pc = "read"]]
        ELSE fr[t]]

FrFinished(i) ==
    \A t \in TaskIds, k \in Kinds : tick[i].fr[t][k].pc \in {"none", "done"}

\* a callback slot is free once its callback and the calls it started are over
SlotFree(i) == tick[i].phase \in {"idle", "done"} /\ FrFinished(i)

\* the cron callback fires: expiryThreshold, the scan of the drag locks, and
\* the forceReleaseLock calls of Promise.all
TickStart(i) ==
    /\ lastTick < now
    /\ SlotFree(i)
    /\ \A j \in Ticks : j < i => ~SlotFree(j)
    /\ LET threshold == now - LOCK_EXPIRY_MS
       IN tick' = [tick EXCEPT ![i] =
            [phase |-> "drag", threshold |-> threshold,
             fr |-> StartForceReleases(IdleTick.fr, "drag",
                                       Expired("drag", threshold))]]
    /\ lastTick' = now
    /\ UNCHANGED <<tasks, lock, now, call, boardVars, clientVars>>

PhaseThrew(i, k) == \E t \in TaskIds : tick[i].fr[t][k].ret = "threw"

PhaseReturned(i, k) == \A t \in TaskIds : tick[i].fr[t][k].pc \in {"none", "done"}

\* await Promise.all(drag) is over: a rejection goes to the catch and ends the
\* callback, otherwise the scan of the edit locks and its forceReleaseEditLock calls
TickDragDone(i) ==
    /\ tick[i].phase = "drag"
    /\ IF PhaseThrew(i, "drag")
       THEN tick' = [tick EXCEPT ![i].phase = "done"]
       ELSE /\ PhaseReturned(i, "drag")
            /\ tick' = [tick EXCEPT
                  ![i].phase = "edit",
                  ![i].fr = StartForceReleases(tick[i].fr, "edit",
                                Expired("edit", tick[i].threshold))]
    /\ UNCHANGED <<tasks, lock, now, lastTick, call, boardVars, clientVars>>

\* await Promise.all(edit) is over, by return or by rejection
TickEditDone(i) ==
    /\ tick[i].phase = "edit"
    /\ PhaseThrew(i, "edit") \/ PhaseReturned(i, "edit")
    /\ tick' = [tick EXCEPT ![i].phase = "done"]
    /\ UNCHANGED <<tasks, lock, now, lastTick, call, boardVars, clientVars>>

\* --------------------------------------------------------------------- Next

Next ==
    \/ \E p \in Procs, t \in Seeded, k \in Kinds, u \in Users : AcquireRead(p, t, k, u)
    \/ \E p \in Procs : AcquireWrite(p)
    \/ \E p \in Procs : AcquireEmit(p)
    \/ \E p \in Procs, t \in Seeded, k \in Kinds, u \in Users : ReleaseRead(p, t, k, u)
    \/ \E p \in Procs : ReleaseWrite(p)
    \/ \E p \in Procs : ReleaseEmit(p)
    \/ \E t \in TaskIds : DeleteTask(t)
    \/ \E i \in Ticks, t \in TaskIds, k \in Kinds : ForceReleaseRead(i, t, k)
    \/ \E i \in Ticks, t \in TaskIds, k \in Kinds : ForceReleaseWrite(i, t, k)
    \/ \E i \in Ticks, t \in TaskIds, k \in Kinds : ForceReleaseEmit(i, t, k)
    \/ \E i \in Ticks : TickStart(i)
    \/ \E i \in Ticks : TickDragDone(i)
    \/ \E i \in Ticks : TickEditDone(i)
    \/ ClockAdvance

Spec == Init /\ [][Next]_vars

\* ------------------------------------------------ clients that only acquire

\* A second specification for progress: clients issue acquire calls for ever
\* (a finished call's slot is taken by the next call) and never release; cron
\* fires every period, and every database statement issued is answered.

\* number of acquire calls that may be in progress at once
NumPollers == 2
\* the clock of this specification runs from 0 to LiveClock cron periods
LiveClock == 10

Pollers == 1..NumPollers

\* a lock acquired up to this instant can expire and be swept before the clock
\* of the model ends; a free lock is not taken later than this
LastAcquireAt == LiveClock * CRON_PERIOD_MS - LOCK_EXPIRY_MS - CRON_PERIOD_MS

\* the client's next call takes the place of a finished one
Recycle(p) ==
    /\ call[p].pc = "done"
    /\ call' = [call EXCEPT ![p] = IdleCall]
    /\ UNCHANGED <<tasks, lock, now, lastTick, tick, boardVars, clientVars>>

\* the clients are after one lock kind of the task at a time
PollRead(p, t, k, u) ==
    /\ \A q \in Pollers : call[q].op # "none" => call[q].kind = k
    /\ \A j \in Kinds \ {k} : ~lock[t][j].held
    /\ ~lock[t][k].held => now <= LastAcquireAt
    /\ AcquireRead(p, t, k, u)

ClockLive ==
    /\ lastTick = now
    /\ now + CRON_PERIOD_MS <= LiveClock * CRON_PERIOD_MS
    /\ \/ now + CRON_PERIOD_MS <= LastAcquireAt
       \/ \A p \in Procs : call[p].pc # "write"
    /\ now' = now + CRON_PERIOD_MS
    /\ UNCHANGED <<tasks, lock, lastTick, call, tick, boardVars, clientVars>>

NextLive ==
    \/ \E p \in Pollers, t \in Seeded, k \in Kinds, u \in Users : PollRead(p, t, k, u)
    \/ \E p \in Pollers : AcquireWrite(p)
    \/ \E p \in Pollers : AcquireEmit(p)
    \/ \E p \in Pollers : Recycle(p)
    \/ \E i \in Ticks, t \in TaskIds, k \in Kinds : ForceReleaseRead(i, t, k)
    \/ \E i \in Ticks, t \in TaskIds, k \in Kinds : ForceReleaseWrite(i, t, k)
    \/ \E i \in Ticks, t \in TaskIds, k \in Kinds : ForceReleaseEmit(i, t, k)
    \/ \E i \in Ticks : TickStart(i)
    \/ \E i \in Ticks : TickDragDone(i)
    \/ \E i \in Ticks : TickEditDone(i)
    \/ ClockLive

FairLive ==
    /\ WF_vars(ClockLive)
    /\ \A p \in Pollers : WF_vars(AcquireWrite(p))
    /\ \A i \in Ticks : WF_vars(TickStart(i))
    /\ \A i \in Ticks : WF_vars(TickDragDone(i))
    /\ \A i \in Ticks : WF_vars(TickEditDone(i))
    /\ \A i \in Ticks, t \in TaskIds, k \in Kinds : WF_vars(ForceReleaseRead(i, t, k))
    /\ \A i \in Ticks, t \in TaskIds, k \in Kinds : WF_vars(ForceReleaseWrite(i, t, k))
    /\ \A i \in Ticks, t \in TaskIds, k \in Kinds : WF_vars(ForceReleaseEmit(i, t, k))

SpecLive == Init /\ [][NextLive]_vars /\ FairLive

\* ------------------------------------------------------------ the board

\* A third specification: the mutation routes of the board. A user takes a
\* position lock with acquireLock and a PATCH /reorder or PATCH /:id/status
\* request is served while rows are created and deleted. The clock stands
\* still.

\* const OFFSET = 100000
OFFSET == 100000

\* data: { orderId: OFFSET + index + 1 }, index counting from 0
SpreadData(index) == OFFSET + index + 1

CompactDataFromZero(index) == index

\* data: { orderId: index + 1 }
CompactData(index) == index + 1

RECURSIVE BatchUpdateSubtracts(_, _, _, _)
BatchUpdateSubtracts(ord, ids, index, phase) ==
    IF index = Len(ids) THEN ord
    ELSE BatchUpdateSubtracts(
            [ord EXCEPT ![ids[index + 1]] =
                IF phase = "spread" THEN SpreadData(index) ELSE @ - OFFSET],
            ids, index + 1, phase)

\* orderedIds.map((id, index) => prisma.task.update({ where: { id }, data }))
\* run by prisma.$transaction one update after the other
RECURSIVE BatchUpdate(_, _, _, _)
BatchUpdate(ord, ids, index, phase) ==
    IF index = Len(ids) THEN ord
    ELSE BatchUpdate(
            [ord EXCEPT ![ids[index + 1]] =
                IF phase = "spread" THEN SpreadData(index) ELSE CompactData(index)],
            ids, index + 1, phase)

\* an update whose row does not exist throws; the transaction is rolled back
BatchThrows(ids) == \E i \in 1..Len(ids) : ids[i] \notin tasks

\* the place of the first update of row x in a batch: there the batch takes
\* the row's lock, which it holds until it commits
FirstAt(ids, x) == CHOOSE i \in 1..Len(ids) : ids[i] = x /\ \A j \in 1..(i - 1) : ids[j] # x

InBatch(ids) == {ids[i] : i \in 1..Len(ids)}

\* two batches that take the locks of two rows in opposite orders
Opposed(a, b) ==
    \E x, y \in InBatch(a) \cap InBatch(b) :
        /\ x # y
        /\ FirstAt(a, x) < FirstAt(a, y)
        /\ FirstAt(b, y) < FirstAt(b, x)

\* z.array(z.string().uuid()): any array of ids, of rows that exist or not
OrderedIdsInputs == UNION {[1..n -> TaskIds] : n \in 0..MaxIds}

\* the rows of the column of row t
Column(t) == IF t \in tasks THEN {x \in tasks : status[x] = status[t]} ELSE {}

RouteAllowedAnyHolder(t, u) == lock[t]["drag"].held

\* !(!taskCheck.isLocked || taskCheck.lockAcquiredBy !== userId)
RouteAllowed(t, u) == lock[t]["drag"].held /\ lock[t]["drag"].by = u

\* requests start in slot order
ReqMayStart(r) ==
    /\ req[r].pc = "idle"
    /\ \A q \in Reqs : q < r => req[q].pc # "idle"

\* a request that has answered before its first write: its locals are gone
Rejected(r0, code) ==
    [IdleReq EXCEPT !.op = r0.op, !.task = r0.task, !.user = r0.user,
                    !.pc = "done", !.ret = code]

\* the findUnique of a route and its 404 and 403 exits
RouteCheck(r, r0, t, u, goon) ==
    req' = [req EXCEPT ![r] =
        IF t \notin tasks THEN Rejected(r0, "404")
        ELSE IF ~RouteAllowed(t, u) THEN Rejected(r0, "403")
        ELSE [r0 EXCEPT !.pc = goon]]

\* router.patch('/reorder'): safeParse, findUnique, the 404 and 403 exits
ReorderCheck(r, t, u, ids) ==
    /\ ReqMayStart(r)
    /\ RouteCheck(r, [IdleReq EXCEPT !.op = "reorder", !.task = t, !.user = u,
                                     !.ids = ids, !.before = orderId,
                                     !.col = Column(t)],
                  t, u, "spread")
    /\ UNCHANGED <<tasks, lock, now, lastTick, call, tick, orderId, status,
                   nextOrderId, title, clientVars>>

\* one prisma.$transaction([...updates]) of the reorder route, committed or
\* rolled back as a whole; a throw goes to the catch: status 500
ReorderBatch(r, phase, goon) ==
    /\ req[r].op = "reorder" /\ req[r].pc = phase
    /\ IF BatchThrows(req[r].ids)
       THEN /\ req' = [req EXCEPT ![r].pc = "done", ![r].ret = "500"]
            /\ orderId' = orderId
       ELSE /\ req' = [MarkDirty(req, r) EXCEPT ![r].pc = goon, ![r].batches = @ + 1]
            /\ orderId' = BatchUpdate(orderId, req[r].ids, 0, phase)
    /\ UNCHANGED <<tasks, lock, now, lastTick, call, tick, status, nextOrderId, title,
                   clientVars>>

ReorderSpreadThenRelease(r) == ReorderBatch(r, "spread", "relRead")

\* await prisma.$transaction(... OFFSET + index + 1 ...)
ReorderSpread(r) == ReorderBatch(r, "spread", "compact")

\* await prisma.$transaction(... index + 1 ...)
ReorderCompact(r) == ReorderBatch(r, "compact", "relRead")

\* two batches in progress that wait for each other's row locks: the database
\* aborts one of them, whose request ends in the catch
BatchDeadlock(r) ==
    /\ req[r].op = "reorder" /\ req[r].pc \in {"spread", "compact"}
    /\ \E q \in Reqs \ {r} :
        /\ req[q].op = "reorder" /\ req[q].pc \in {"spread", "compact"}
        /\ Opposed(req[r].ids, req[q].ids)
    /\ req' = [req EXCEPT ![r].pc = "done", ![r].ret = "500"]
    /\ UNCHANGED <<tasks, lock, now, lastTick, call, tick, orderId, status,
                   nextOrderId, title, clientVars>>

\* what follows `await releaseLock(taskId, userId)` in the route: the reorder
\* route goes on to its findMany; the status and title routes emit
\* task:updated and answer, with no await in between
AfterRelease(q, evs) ==
    IF q.op = "reorder"
    THEN [q EXCEPT !.pc = "fetch", !.emitted = @ \o evs]
    ELSE [q EXCEPT !.pc = "done", !.ret = "200",
                   !.emitted = @ \o evs \o <<"task:updated">>]

\* the lock a route tests and releases: the edit lock for the title route, the
\* position lock for the others
ReqKind(q) == IF q.op = "title" THEN "edit" ELSE "drag"

\* releaseLock or releaseEditLock called by a route: findUnique and the early
\* return false
ReqReleaseRead(r) ==
    /\ req[r].pc = "relRead"
    /\ req' = [req EXCEPT ![r] =
            IF ReleaseAllowed(req[r].task, ReqKind(req[r]), req[r].user)
            THEN [@ EXCEPT !.pc = "relWrite"]
            ELSE AfterRelease(@, <<>>)]
    /\ UNCHANGED <<tasks, lock, now, lastTick, call, tick, orderId, status,
                   nextOrderId, title, clientVars>>

\* releaseLock called by a route: the update; on a row deleted meanwhile it
\* throws, which ends the request in the route's catch
ReqReleaseWrite(r) ==
    /\ req[r].pc = "relWrite"
    /\ LET t == req[r].task
           k == ReqKind(req[r])
       IN IF t \in tasks
          THEN /\ lock' = [lock EXCEPT ![t][k] = ReleaseData(lock[t][k])]
               /\ call' = MarkFreed(call, t, k)
               /\ req' = [req EXCEPT ![r].pc = "relEmit"]
          ELSE /\ lock' = lock
               /\ call' = call
               /\ req' = [req EXCEPT ![r].pc = "done", ![r].ret = "500"]
    /\ UNCHANGED <<tasks, now, lastTick, tick, orderId, status, nextOrderId, title,
                   clientVars>>

\* releaseLock called by a route: io.emit('task:lock_released'); return true
ReqReleaseEmit(r) ==
    /\ req[r].pc = "relEmit"
    /\ req' = [req EXCEPT ![r] =
            AfterRelease(@, <<LockEvent(ReqKind(req[r]), "released")>>)]
    /\ UNCHANGED <<tasks, lock, now, lastTick, call, tick, orderId, status,
                   nextOrderId, title, clientVars>>

\* prisma.task.findMany({ where: { id: { in: orderedIds } } });
\* io.emit('task:reordered', updatedTasks); res.json(updatedTasks)
ReorderFetch(r) ==
    /\ req[r].op = "reorder" /\ req[r].pc = "fetch"
    /\ req' = [req EXCEPT ![r].pc = "done", ![r].ret = "200",
                          ![r].emitted = @ \o <<"task:reordered">>]
    /\ UNCHANGED <<tasks, lock, now, lastTick, call, tick, orderId, status,
                   nextOrderId, title, clientVars>>

\* router.patch('/:id/status'): safeParse, findUnique, the 404 and 403 exits
StatusCheck(r, t, u, st) ==
    /\ ReqMayStart(r)
    /\ RouteCheck(r, [IdleReq EXCEPT !.op = "status", !.task = t, !.user = u,
                                     !.to = st, !.before = orderId,
                                     !.col = Column(t)],
                  t, u, "update")
    /\ UNCHANGED <<tasks, lock, now, lastTick, call, tick, orderId, status,
                   nextOrderId, title, clientVars>>

\* prisma.task.update({ where: { id: taskId }, data: { status } })
StatusUpdate(r) ==
    /\ req[r].op = "status" /\ req[r].pc = "update"
    /\ IF req[r].task \in tasks
       THEN /\ status' = [status EXCEPT ![req[r].task] = req[r].to]
            /\ req' = [MarkDirty(req, r) EXCEPT ![r].pc = "relRead"]
       ELSE /\ status' = status
            /\ req' = [req EXCEPT ![r].pc = "done", ![r].ret = "500"]
    /\ UNCHANGED <<tasks, lock, now, lastTick, call, tick, orderId, nextOrderId, title,
                   clientVars>>

TitleAllowedEitherKind(t, u) ==
    \E k \in Kinds : lock[t][k].held /\ lock[t][k].by = u

\* !(!taskCheck.isEditLocked || taskCheck.editLockAcquiredBy !== userId)
TitleAllowed(t, u) == lock[t]["edit"].held /\ lock[t]["edit"].by = u

\* router.patch('/:id/title'): safeParse, findUnique, the 404 and 403 exits
TitleCheck(r, t, u, ti) ==
    /\ ReqMayStart(r)
    /\ LET r0 == [IdleReq EXCEPT !.op = "title", !.task = t, !.user = u,
                                 !.to = ti, !.before = orderId,
                                 !.col = Column(t)]
       IN req' = [req EXCEPT ![r] =
            IF t \notin tasks THEN Rejected(r0, "404")
            ELSE IF ~TitleAllowed(t, u) THEN Rejected(r0, "403")
            ELSE [r0 EXCEPT !.pc = "update"]]
    /\ UNCHANGED <<tasks, lock, now, lastTick, call, tick, orderId, status,
                   nextOrderId, title, clientVars>>

\* prisma.task.update({ where: { id }, data: updateData })
TitleUpdate(r) ==
    /\ req[r].op = "title" /\ req[r].pc = "update"
    /\ IF req[r].task \in tasks
       THEN /\ title' = [title EXCEPT ![req[r].task] = req[r].to]
            /\ req' = [MarkDirty(req, r) EXCEPT ![r].pc = "relRead"]
       ELSE /\ title' = title
            /\ req' = [req EXCEPT ![r].pc = "done", ![r].ret = "500"]
    /\ UNCHANGED <<tasks, lock, now, lastTick, call, tick, orderId, status,
                   nextOrderId, clientVars>>

\* router.post('/'): prisma.task.create; the n-th row created is the row of
\* the n-th id and gets the next orderId
CreateTask(t, st) ==
    /\ t \notin tasks
    /\ SeedOrderId(t) = nextOrderId
    /\ tasks' = tasks \cup {t}
    /\ orderId' = [orderId EXCEPT ![t] = nextOrderId]
    /\ status' = [status EXCEPT ![t] = st]
    /\ title' = [title EXCEPT ![t] = SeedTitle(t)]
    /\ nextOrderId' = nextOrderId + 1
    /\ req' = MarkDirty(req, 0)
    /\ UNCHANGED <<lock, now, lastTick, call, tick, clientVars>>

\* the rows of the board when the requests start
BoardRows == {"T1", "T2"}

\* the columns the requests of the board move rows between
StatusInputs == {"TODO", "PROGRESS"}

\* number of acquireLock calls in progress at once on the board
NumBoardCalls == 1

BoardCalls == 1..NumBoardCalls

\* number of mutation requests in progress at once on the board
NumBoardReqs == 1

BoardReqs == 1..NumBoardReqs

\* the rows of the board exist, nobody holding a lock
InitBoard == InitRows(BoardRows) /\ InitIdle

NextBoard ==
    \/ \E p \in BoardCalls, t \in TaskIds, u \in Users : AcquireRead(p, t, "drag", u)
    \/ \E p \in BoardCalls : AcquireWrite(p)
    \/ \E p \in BoardCalls : AcquireEmit(p)
    \/ \E r \in BoardReqs, t \in TaskIds, u \in Users, ids \in OrderedIdsInputs :
            ReorderCheck(r, t, u, ids)
    \/ \E r \in BoardReqs : ReorderSpread(r)
    \/ \E r \in BoardReqs : ReorderCompact(r)
    \/ \E r \in BoardReqs : ReqReleaseRead(r)
    \/ \E r \in BoardReqs : ReqReleaseWrite(r)
    \/ \E r \in BoardReqs : ReqReleaseEmit(r)
    \/ \E r \in BoardReqs : ReorderFetch(r)
    \/ \E r \in BoardReqs, t \in TaskIds, u \in Users, st \in StatusInputs :
            StatusCheck(r, t, u, st)
    \/ \E r \in BoardReqs : StatusUpdate(r)
    \/ \E t \in TaskIds, st \in StatusInputs : CreateTask(t, st)
    \/ \E t \in TaskIds : DeleteTask(t)

SpecBoard == InitBoard /\ [][NextBoard]_vars

\* ------------------------------------------- the status and title routes

\* A specification of the two routes that write a row's fields under a lock:
\* acquires of both kinds and requests of PATCH /:id/status and /:id/title on
\* the seeded row, which can be deleted.

\* number of acquire calls made around the two routes
NumRouteCalls == 2

RouteCalls == 1..NumRouteCalls

NextRoutes ==
    \/ \E p \in RouteCalls, t \in Seeded, k \in Kinds, u \in Users : AcquireRead(p, t, k, u)
    \/ \E p \in RouteCalls : AcquireWrite(p)
    \/ \E p \in RouteCalls : AcquireEmit(p)
    \/ \E r \in Reqs, t \in Seeded, u \in Users, st \in StatusInputs :
            StatusCheck(r, t, u, st)
    \/ \E r \in Reqs : StatusUpdate(r)
    \/ \E r \in Reqs, t \in Seeded, u \in Users, ti \in Titles :
            TitleCheck(r, t, u, ti)
    \/ \E r \in Reqs : TitleUpdate(r)
    \/ \E r \in Reqs : ReqReleaseRead(r)
    \/ \E r \in Reqs : ReqReleaseWrite(r)
    \/ \E r \in Reqs : ReqReleaseEmit(r)
    \/ \E t \in Seeded : DeleteTask(t)

SpecRoutes == Init /\ [][NextRoutes]_vars

\* ------------------------------------------------- two reorders at once

\* A fourth specification: two PATCH /reorder requests in progress at once,
\* each a full ordering of some rows of one column, with position locks taken
\* beforehand.

\* what a position lock of a row can be when the requests start: free, or
\* acquired by a user at an earlier instant
LockInputs == {FreeLock} \cup {HeldLock(u, 0) : u \in Users}

\* the orderings of two or more rows
RaceInputs ==
    {ids \in OrderedIdsInputs :
        /\ Len(ids) >= 2
        /\ \A i, j \in 1..Len(ids) : i # j => ids[i] # ids[j]}

\* every row exists, in one column, and users have taken position locks of
\* the rows the board started with
InitRace ==
    /\ tasks = TaskIds
    /\ lock \in [TaskIds -> [Kinds -> LockInputs]]
    /\ \A t \in TaskIds : lock[t]["edit"] = FreeLock
    /\ \A t \in TaskIds \ BoardRows : lock[t]["drag"] = FreeLock
    /\ orderId = [t \in TaskIds |-> SeedOrderId(t)]
    /\ status = [t \in TaskIds |-> SeedStatus(t)]
    /\ title = [t \in TaskIds |-> SeedTitle(t)]
    /\ nextOrderId = Cardinality(TaskIds) + 1
    /\ InitIdle

NextRace ==
    \/ \E r \in Reqs, t \in TaskIds, u \in Users, ids \in RaceInputs :
            ReorderCheck(r, t, u, ids)
    \/ \E r \in Reqs : ReorderSpread(r)
    \/ \E r \in Reqs : ReorderCompact(r)
    \/ \E r \in Reqs : BatchDeadlock(r)
    \/ \E r \in Reqs : ReqReleaseRead(r)
    \/ \E r \in Reqs : ReqReleaseWrite(r)
    \/ \E r \in Reqs : ReqReleaseEmit(r)
    \/ \E r \in Reqs : ReorderFetch(r)

SpecRace == InitRace /\ [][NextRace]_vars

\* ------------------------------------------------------------ the client

\* A specification of one client's offline queue and its replay. The server
\* is what answers the client's calls: every call is answered, with any of
\* the answers the routes can give.

\* type QueuedEventType
EventTypes == {"CREATE_TASK", "UPDATE_TITLE", "UPDATE_STATUS", "REORDER_TASKS", "DELETE_TASK"}

\* the cases of replayOne that take a lock before the mutation
NeedsLock(type) == type \in {"UPDATE_TITLE", "UPDATE_STATUS", "REORDER_TASKS"}

\* type QueuedEvent: the type and the payload; a field a type does not have
\* is null
QueuedEvent(type, t, u, to, ids) ==
    [type |-> type, task |-> t, user |-> u, to |-> to, ids |-> ids]

\* the events the user of the client queues on the first row of the board
ClientEvents ==
    {QueuedEvent("UPDATE_TITLE", "T1", "u1", "b", <<>>),
     QueuedEvent("UPDATE_STATUS", "T1", "u1", "PROGRESS", <<>>),
     QueuedEvent("REORDER_TASKS", "T1", "u1", NullStatus, <<"T2", "T1">>),
     QueuedEvent("DELETE_TASK", "T1", NullUser, NullStatus, <<>>)}

\* all.sort((a, b) => a.enqueuedAt - b.enqueuedAt) puts an element after the
\* elements that do not compare greater (the sort is stable)
InsertSorted(sorted, e) ==
    LET k == Cardinality({i \in 1..Len(sorted) : sorted[i].at <= e.at})
    IN SubSeq(sorted, 1, k) \o <<e>> \o SubSeq(sorted, k + 1, Len(sorted))

InsertNewestFirst(sorted, e) ==
    LET k == Cardinality({i \in 1..Len(sorted) : sorted[i].at >= e.at})
    IN SubSeq(sorted, 1, k) \o <<e>> \o SubSeq(sorted, k + 1, Len(sorted))

RECURSIVE GetAllEventsNewestFirst(_)
GetAllEventsNewestFirst(all) ==
    IF all = <<>> THEN <<>>
    ELSE InsertNewestFirst(GetAllEventsNewestFirst(SubSeq(all, 1, Len(all) - 1)),
                           all[Len(all)])

\* getAllEvents: db.getAll(STORE), which is in key order, sorted by enqueuedAt
RECURSIVE GetAllEvents(_)
GetAllEvents(all) ==
    IF all = <<>> THEN <<>>
    ELSE InsertSorted(GetAllEvents(SubSeq(all, 1, Len(all) - 1)), all[Len(all)])

RemoveEventKeeps(all, id) == all

\* db.delete(STORE, id)
RemoveEvent(all, id) == SelectSeq(all, LAMBDA e : e.id # id)

\* db.add(STORE, { ...event, enqueuedAt: Date.now() }) under the next key
Added(ev) ==
    Append(store, [id |-> nextKey, type |-> ev.type, at |-> now, task |-> ev.task,
                   user |-> ev.user, to |-> ev.to, ids |-> ev.ids])

\* enqueueEvent, called for a mutation of an existing task made offline
Enqueue(ev) ==
    /\ nextKey <= MaxEvents
    /\ store' = Added(ev)
    /\ nextKey' = nextKey + 1
    /\ UNCHANGED <<tasks, lock, now, lastTick, call, tick, boardVars,
                   isFlushing, flush, net, view, cleared>>

\* the card of a task: the placeholder of the create queued under key k, or
\* the task the server has created for it
Placeholder(k, ti) == [id |-> <<"temp", k>>, title |-> ti, opt |-> TRUE]

ServerTask(ev) == [id |-> <<"srv", ev.id>>, title |-> ev.to, opt |-> FALSE]

\* CreateTaskForm.handleSubmit offline: addOptimisticTask(optimisticTask) and
\* enqueue({ type: 'CREATE_TASK', payload: { title, tempId } })
OfflineCreate(ti) ==
    /\ nextKey <= MaxEvents
    /\ view' = Append(view, Placeholder(nextKey, ti))
    /\ store' = Added(QueuedEvent("CREATE_TASK", "none", NullUser, ti, <<>>))
    /\ nextKey' = nextKey + 1
    /\ UNCHANGED <<tasks, lock, now, lastTick, call, tick, boardVars,
                   isFlushing, flush, net, cleared>>

\* handleLogout: await clearQueue(), which is db.clear(STORE)
ClearQueue ==
    /\ cleared = 0
    /\ store # <<>>
    /\ store' = <<>>
    /\ cleared' = nextKey
    /\ UNCHANGED <<tasks, lock, now, lastTick, call, tick, boardVars,
                   nextKey, isFlushing, flush, net, view>>

\* the client's Date.now() moves on
ClientClock ==
    /\ now < MaxClientClock
    /\ now' = now + 1
    /\ UNCHANGED <<tasks, lock, lastTick, call, tick, boardVars, clientVars>>

HasId(prev, id) == \E i \in 1..Len(prev) : prev[i].id = id

\* onTaskCreated of useOfflineQueue: the first placeholder with the title of
\* the created task is replaced by it; without one the task is added unless
\* its id is there
OnTaskCreated(prev, task) ==
    LET pending == {i \in 1..Len(prev) : prev[i].opt /\ prev[i].title = task.title}
    IN IF pending # {}
       THEN [prev EXCEPT ![CHOOSE i \in pending : \A j \in pending : i <= j] = task]
       ELSE IF HasId(prev, task.id) THEN prev
       ELSE Append(prev, task)

\* handleTaskCreated, the handler of the task:created broadcast
HandleTaskCreated(prev, task) ==
    IF HasId(prev, task.id) THEN prev ELSE Append(prev, task)

FlushGuardOff == FALSE

\* if (isFlushing.current) return
FlushGuard == isFlushing

\* flushes start in slot order
FlushMayStart(f) ==
    /\ flush[f].pc = "idle"
    /\ \A g \in Flushers : g < f => flush[g].pc # "idle"

\* flushQueue is called, by onConnected or by onOnline: the isFlushing test,
\* isFlushing.current = true and the call of getAllEvents
FlushStart(f) ==
    /\ FlushMayStart(f)
    /\ IF FlushGuard
       THEN /\ flush' = [flush EXCEPT ![f] = [IdleFlush EXCEPT !.pc = "done", !.noop = TRUE]]
            /\ isFlushing' = isFlushing
       ELSE /\ flush' = [flush EXCEPT ![f].pc = "getAll"]
            /\ isFlushing' = TRUE
    /\ UNCHANGED <<tasks, lock, now, lastTick, call, tick, boardVars,
                   store, nextKey, net, view, cleared>>

\* finally { setIsSyncing(false); isFlushing.current = false }
Finished(fl) == [fl EXCEPT !.pc = "done", !.step = "none"]

\* replayOne issues a server call: a lock call (acquire, release) or the
\* mutation request
Issues(fl, step) ==
    IF step = "mutate"
    THEN [fl EXCEPT !.pc = "call", !.step = step, !.reqs = @ + 1]
    ELSE [fl EXCEPT !.pc = "call", !.step = step, !.calls = @ + 1]

\* the first server call of replayOne(ev)
FirstStep(ev) == IF NeedsLock(ev.type) THEN "acquire" ELSE "mutate"

\* the for loop goes to events[i]: replayOne(events[i]) issues its first call;
\* after the last entry the loop is over and countEvents is called
LoopAt(fl, i) ==
    IF i <= Len(fl.events)
    THEN Issues([fl EXCEPT !.i = i, !.ok = FALSE,
                           !.attempted = @ \cup {fl.events[i].id}],
                FirstStep(fl.events[i]))
    ELSE [fl EXCEPT !.pc = "count", !.i = i, !.step = "none"]

\* the server call a flush awaits
Awaited(f, fl) ==
    IF fl.pc = "call"
    THEN {[flush |-> f, key |-> fl.events[fl.i].id, step |-> fl.step]}
    ELSE {}

MovesKeepsFlag(f, fl) ==
    /\ flush' = [flush EXCEPT ![f] = fl]
    /\ net' = (net \ Awaited(f, flush[f])) \cup Awaited(f, fl)
    /\ isFlushing' = isFlushing

\* a step of flush f that leaves it as fl: the call it awaited has been
\* answered and the call it awaits now has been issued; on the last step the
\* finally block clears isFlushing
Moves(f, fl) ==
    /\ flush' = [flush EXCEPT ![f] = fl]
    /\ net' = (net \ Awaited(f, flush[f])) \cup Awaited(f, fl)
    /\ isFlushing' = IF fl.pc = "done" THEN FALSE ELSE isFlushing

\* const events = await getAllEvents(); if (events.length === 0) return
FlushGetAll(f) ==
    /\ flush[f].pc = "getAll"
    /\ LET events == GetAllEvents(store)
       IN Moves(f, IF Len(events) = 0
                   THEN Finished(flush[f])
                   ELSE LoopAt([flush[f] EXCEPT !.events = events], 1))
    /\ UNCHANGED <<tasks, lock, now, lastTick, call, tick, boardVars,
                   store, nextKey, view, cleared>>

\* what the server can answer to a call of replayOne. A mutation request is
\* answered with success, with an error before any write, or, for a reorder,
\* with the 500 of the catch after its first batch has been committed
Answers(ev, step) ==
    CASE step = "acquire" -> {"granted", "denied", "throws"}
      [] step = "mutate"  -> {"ok", "throws"} \cup
                             (IF ev.type = "REORDER_TASKS" THEN {"partial"} ELSE {})
      [] step = "release" -> {"ok", "throws"}

\* replayOne(ev) after the answer to the call it awaited: the next call of
\* the entry, or its return value, after which flushQueue awaits removeEvent
\* (true) or goes to the next entry (false)
AfterAnswer(fl, ans) ==
    LET ev == fl.events[fl.i]
        returns(v) == IF v THEN [fl EXCEPT !.pc = "remove", !.step = "none"]
                      ELSE LoopAt([fl EXCEPT !.skipped = @ \cup {ev.id}], fl.i + 1)
    IN CASE fl.step = "acquire" /\ ans = "granted" -> Issues(fl, "mutate")
         [] fl.step = "acquire" /\ ans # "granted" -> returns(FALSE)
         [] fl.step = "mutate" /\ ans = "ok" ->
                IF ev.type = "UPDATE_TITLE"
                THEN Issues([fl EXCEPT !.ok = TRUE], "release")
                ELSE returns(TRUE)
         [] fl.step = "mutate" /\ ans # "ok" ->
                IF NeedsLock(ev.type)
                THEN Issues([fl EXCEPT !.ok = FALSE], "release")
                ELSE returns(FALSE)
         [] fl.step = "release" -> returns(fl.ok)

\* history: the request the server has answered has written to the database
Writes(fl, ans) ==
    IF fl.step = "mutate" /\ ans \in {"ok", "partial"}
    THEN [fl EXCEPT !.applied = @ \cup {fl.events[fl.i].id}]
    ELSE fl

\* flush f awaits the answer to the create request of a queued CREATE_TASK
AwaitsCreate(f) ==
    /\ flush[f].pc = "call"
    /\ flush[f].step = "mutate"
    /\ flush[f].events[flush[f].i].type = "CREATE_TASK"

\* the server answers the call that replayOne awaits; the answer to a create
\* is followed by onTaskCreated?.(task)
FlushAnswer(f, ans) ==
    /\ flush[f].pc = "call"
    /\ LET ev == flush[f].events[flush[f].i]
       IN /\ ans \in Answers(ev, flush[f].step)
          /\ AwaitsCreate(f) /\ HasId(view, ServerTask(ev).id) => ans = "ok"
          /\ view' = IF AwaitsCreate(f) /\ ans = "ok"
                     THEN OnTaskCreated(view, ServerTask(ev))
                     ELSE view
    /\ Moves(f, AfterAnswer(Writes(flush[f], ans), ans))
    /\ UNCHANGED <<tasks, lock, now, lastTick, call, tick, boardVars,
                   store, nextKey, cleared>>

\* the task:created broadcast of the create route reaches the client before
\* the route's answer does: io.emit('task:created', task) comes before res.json
SocketTaskCreated(f) ==
    /\ AwaitsCreate(f)
    /\ ~HasId(view, ServerTask(flush[f].events[flush[f].i]).id)
    /\ view' = HandleTaskCreated(view, ServerTask(flush[f].events[flush[f].i]))
    /\ UNCHANGED <<tasks, lock, now, lastTick, call, tick, boardVars,
                   store, nextKey, isFlushing, flush, net, cleared>>

\* if (succeeded) await removeEvent(ev.id), and on to the next entry
FlushRemove(f) ==
    /\ flush[f].pc = "remove"
    /\ store' = RemoveEvent(store, flush[f].events[flush[f].i].id)
    /\ Moves(f, LoopAt(flush[f], flush[f].i + 1))
    /\ UNCHANGED <<tasks, lock, now, lastTick, call, tick, boardVars, nextKey,
                   view, cleared>>

\* countEvents: db.count(STORE)
CountEvents(q) == Len(q)

\* const remaining = await countEvents(); if (remaining === 0) the success
\* toast, else the toast with the count and the call of getAllEvents for the
\* leftovers
FlushCount(f) ==
    /\ flush[f].pc = "count"
    /\ Moves(f, IF CountEvents(store) = 0
                THEN Finished([flush[f] EXCEPT !.reported = 0])
                ELSE [flush[f] EXCEPT !.pc = "leftGet",
                                      !.reported = CountEvents(store)])
    /\ UNCHANGED <<tasks, lock, now, lastTick, call, tick, boardVars,
                   store, nextKey, view, cleared>>

\* const leftovers = await getAllEvents()
FlushLeftGet(f) ==
    /\ flush[f].pc = "leftGet"
    /\ LET left == GetAllEvents(store)
       IN Moves(f, IF Len(left) = 0 THEN Finished(flush[f])
                   ELSE [flush[f] EXCEPT !.pc = "leftRemove", !.left = left, !.j = 1])
    /\ UNCHANGED <<tasks, lock, now, lastTick, call, tick, boardVars,
                   store, nextKey, view, cleared>>

\* for (const ev of leftovers) await removeEvent(ev.id); after the last one
\* setQueueLength(0) and the finally block
FlushLeftRemove(f) ==
    /\ flush[f].pc = "leftRemove"
    /\ store' = RemoveEvent(store, flush[f].left[flush[f].j].id)
    /\ Moves(f, IF flush[f].j < Len(flush[f].left)
                THEN [flush[f] EXCEPT !.j = @ + 1]
                ELSE Finished(flush[f]))
    /\ UNCHANGED <<tasks, lock, now, lastTick, call, tick, boardVars, nextKey,
                   view, cleared>>

\* the titles of the tasks the user of the client creates offline
ClientTitles == {"a"}

NextClient ==
    \/ \E ev \in ClientEvents : Enqueue(ev)
    \/ \E ti \in ClientTitles : OfflineCreate(ti)
    \/ ClientClock
    \/ \E f \in Flushers : FlushStart(f)
    \/ \E f \in Flushers : FlushGetAll(f)
    \/ \E f \in Flushers, ans \in {"granted", "denied", "ok", "partial", "throws"} :
            FlushAnswer(f, ans)
    \/ \E f \in Flushers : FlushRemove(f)
    \/ \E f \in Flushers : FlushCount(f)
    \/ \E f \in Flushers : FlushLeftGet(f)
    \/ \E f \in Flushers : FlushLeftRemove(f)

SpecClient == Init /\ [][NextClient]_vars

\* ------------------------------------------------------------ logout

\* A specification of a logout while the queue holds events: the client's
\* queue and replay, and handleLogout's clearQueue at any moment.

\* the events the user has queued before logging out
LogoutEvents ==
    {ev \in ClientEvents : ev.type \in {"UPDATE_STATUS", "DELETE_TASK"}}

NextLogout ==
    \/ \E ev \in LogoutEvents : Enqueue(ev)
    \/ ClearQueue
    \/ \E f \in Flushers : FlushStart(f)
    \/ \E f \in Flushers : FlushGetAll(f)
    \/ \E f \in Flushers, ans \in {"granted", "denied", "ok", "throws"} :
            FlushAnswer(f, ans)
    \/ \E f \in Flushers : FlushRemove(f)
    \/ \E f \in Flushers : FlushCount(f)
    \/ \E f \in Flushers : FlushLeftGet(f)
    \/ \E f \in Flushers : FlushLeftRemove(f)

SpecLogout == Init /\ [][NextLogout]_vars

\* ------------------------------------------------------------ the cards

\* A specification of the client's cards of the tasks it creates offline: the
\* placeholders, the replay of the queued creates, and the task:created
\* broadcast of each create, which can reach the client before the answer.

NextView ==
    \/ \E ti \in Titles : OfflineCreate(ti)
    \/ \E f \in Flushers : FlushStart(f)
    \/ \E f \in Flushers : FlushGetAll(f)
    \/ \E f \in Flushers, ans \in {"ok", "throws"} : FlushAnswer(f, ans)
    \/ \E f \in Flushers : SocketTaskCreated(f)
    \/ \E f \in Flushers : FlushRemove(f)
    \/ \E f \in Flushers : FlushCount(f)
    \/ \E f \in Flushers : FlushLeftGet(f)
    \/ \E f \in Flushers : FlushLeftRemove(f)

SpecView == Init /\ [][NextView]_vars

\* ------------------------------------------------ the replay on the server

\* A specification of one client's replay against the server: the calls the
\* replay issues are served by the lock service and the routes, and each
\* answer is what the server returned. One user queues status changes and
\* reorders of the first row; nobody else uses the board. The server's cron
\* callback runs as it does in Spec.

\* the flushQueue call whose calls the server serves
Replayer == 1

\* the instant the client is back online: a position lock taken at the start
\* of a drag, just before the connection was lost, is one TTL old
ReplayStartsAt == LOCK_EXPIRY_MS

\* the board when the client comes back: the row's position lock is free, or
\* still held by the user, who took it for the drag and dropped the card
\* while offline; the cron callback of this period is over
InitReplay ==
    /\ tasks = BoardRows
    /\ lock \in [TaskIds -> [Kinds -> {FreeLock,
                     HeldLock("u1", ReplayStartsAt - LOCK_EXPIRY_MS)}]]
    /\ \A t \in TaskIds : lock[t]["edit"] = FreeLock
    /\ \A t \in TaskIds \ Seeded : lock[t]["drag"] = FreeLock
    /\ orderId = [t \in TaskIds |-> IF t \in BoardRows THEN SeedOrderId(t) ELSE NullOrder]
    /\ status = [t \in TaskIds |-> IF t \in BoardRows THEN SeedStatus(t) ELSE NullStatus]
    /\ title = [t \in TaskIds |-> IF t \in BoardRows THEN SeedTitle(t) ELSE NullTitle]
    /\ nextOrderId = Cardinality(BoardRows) + 1
    /\ now = ReplayStartsAt
    /\ lastTick = ReplayStartsAt
    /\ call = [p \in Procs |-> IdleCall]
    /\ tick = [k \in Ticks |-> IdleTick]
    /\ req = [r \in Reqs |-> IdleReq]
    /\ store = <<>>
    /\ nextKey = 1
    /\ isFlushing = FALSE
    /\ flush = [f \in Flushers |-> IdleFlush]
    /\ net = {}
    /\ view = <<>>
    /\ cleared = 0

\* number of entries the user queues before and during the replay
MaxReplayEntries == 2

\* the updates of the first row the user queues
ReplayEvents ==
    {QueuedEvent("UPDATE_STATUS", "T1", "u1", st, <<>>) : st \in StatusInputs}
    \cup {QueuedEvent("REORDER_TASKS", "T1", "u1", NullStatus, ids) :
            ids \in {<<"T1", "T2">>, <<"T2", "T1">>}}
    \cup {QueuedEvent("UPDATE_TITLE", "T1", "u1", "b", <<>>)}

\* the lock replayOne takes for an entry: acquireEditLock for a title,
\* acquireLock for a status change or a reorder
EntryKind(ev) == IF ev.type = "UPDATE_TITLE" THEN "edit" ELSE "drag"

\* the entry the replay is at and the call it awaits
ReplayAt(type, step) ==
    /\ flush[Replayer].pc = "call"
    /\ flush[Replayer].step = step
    /\ flush[Replayer].events[flush[Replayer].i].type = type

ReplayEntry == flush[Replayer].events[flush[Replayer].i]

\* POST /:id/lock reaches the server: acquireLock(lockTaskId, userId)
ServeAcquire ==
    /\ flush[Replayer].pc = "call"
    /\ flush[Replayer].step = "acquire"
    /\ flush[Replayer].calls \in Procs
    /\ AcquireRead(flush[Replayer].calls, ReplayEntry.task, EntryKind(ReplayEntry),
                   ReplayEntry.user)

\* DELETE /:id/lock reaches the server: releaseLock(taskId, userId)
ServeRelease ==
    /\ flush[Replayer].pc = "call"
    /\ flush[Replayer].step = "release"
    /\ flush[Replayer].calls \in Procs
    /\ ReleaseRead(flush[Replayer].calls, ReplayEntry.task, EntryKind(ReplayEntry),
                   ReplayEntry.user)

\* PATCH /:id/status reaches the server
ServeStatus ==
    /\ ReplayAt("UPDATE_STATUS", "mutate")
    /\ flush[Replayer].reqs \in Reqs
    /\ StatusCheck(flush[Replayer].reqs, ReplayEntry.task, ReplayEntry.user,
                   ReplayEntry.to)

\* PATCH /:id/title reaches the server
ServeTitle ==
    /\ ReplayAt("UPDATE_TITLE", "mutate")
    /\ flush[Replayer].reqs \in Reqs
    /\ TitleCheck(flush[Replayer].reqs, ReplayEntry.task, ReplayEntry.user,
                  ReplayEntry.to)

\* PATCH /reorder reaches the server
ServeReorder ==
    /\ ReplayAt("REORDER_TASKS", "mutate")
    /\ flush[Replayer].reqs \in Reqs
    /\ ReorderCheck(flush[Replayer].reqs, ReplayEntry.task, ReplayEntry.user,
                    ReplayEntry.ids)

\* the answer of the server to the call the replay awaits, once the server is
\* through with it: 200 with success, 409, or an error status; axios rejects
\* on an error status of a mutation request
Served(ans) ==
    LET fl == flush[Replayer]
    IN IF fl.step = "mutate"
       THEN /\ fl.reqs \in Reqs
            /\ req[fl.reqs].pc = "done"
            /\ ans = CASE req[fl.reqs].ret = "200" -> "ok"
                       [] req[fl.reqs].ret = "500"
                          /\ \E t \in tasks : orderId[t] > OFFSET -> "partial"
                       [] OTHER -> "throws"
       ELSE /\ fl.calls \in Procs
            /\ call[fl.calls].pc = "done"
            /\ ans = CASE fl.step = "release" -> "ok"
                       [] call[fl.calls].ret = "true" -> "granted"
                       [] OTHER -> "denied"

\* the answer reaches the client
ServerAnswer ==
    \E ans \in {"granted", "denied", "ok", "partial", "throws"} :
        /\ flush[Replayer].pc = "call"
        /\ Served(ans)
        /\ FlushAnswer(Replayer, ans)

\* enqueue, for the entries of one replay
ReplayEnqueue(ev) ==
    /\ nextKey <= MaxReplayEntries
    /\ Enqueue(ev)

NextReplay ==
    \/ \E ev \in ReplayEvents : ReplayEnqueue(ev)
    \/ FlushStart(Replayer)
    \/ FlushGetAll(Replayer)
    \/ ServeAcquire
    \/ \E p \in Procs : AcquireWrite(p)
    \/ \E p \in Procs : AcquireEmit(p)
    \/ ServeRelease
    \/ \E p \in Procs : ReleaseWrite(p)
    \/ \E p \in Procs : ReleaseEmit(p)
    \/ ServeTitle
    \/ \E r \in Reqs : TitleUpdate(r)
    \/ ServeStatus
    \/ \E r \in Reqs : StatusUpdate(r)
    \/ ServeReorder
    \/ \E r \in Reqs : ReorderSpread(r)
    \/ \E r \in Reqs : ReorderCompact(r)
    \/ \E r \in Reqs : ReorderFetch(r)
    \/ \E r \in Reqs : ReqReleaseRead(r)
    \/ \E r \in Reqs : ReqReleaseWrite(r)
    \/ \E r \in Reqs : ReqReleaseEmit(r)
    \/ ServerAnswer
    \/ FlushRemove(Replayer)
    \/ FlushCount(Replayer)
    \/ FlushLeftGet(Replayer)
    \/ FlushLeftRemove(Replayer)
    \/ \E i \in Ticks : TickStart(i)
    \/ \E i \in Ticks, t \in BoardRows, k \in Kinds : ForceReleaseRead(i, t, k)
    \/ \E i \in Ticks, t \in BoardRows, k \in Kinds : ForceReleaseWrite(i, t, k)
    \/ \E i \in Ticks, t \in BoardRows, k \in Kinds : ForceReleaseEmit(i, t, k)
    \/ \E i \in Ticks : TickDragDone(i)
    \/ \E i \in Ticks : TickEditDone(i)
    \/ ClockAdvance
    \/ \E t \in BoardRows \ Seeded : DeleteTask(t)

SpecReplay == InitReplay /\ [][NextReplay]_vars

\* ------------------------------------------------------------ the sweep

\* A specification of the scheduler alone, on a board of two rows whose locks
\* were taken one TTL ago or are free; rows can be deleted while a callback
\* is in progress.

\* the locks of a row when the sweep is due: free, or taken one TTL ago
SweepLocks == {FreeLock, HeldLock("u1", ReplayStartsAt - LOCK_EXPIRY_MS)}

InitSweep ==
    /\ tasks = BoardRows
    /\ lock \in [TaskIds -> [Kinds -> SweepLocks]]
    /\ \A t \in TaskIds \ BoardRows, k \in Kinds : lock[t][k] = FreeLock
    /\ orderId = [t \in TaskIds |-> IF t \in BoardRows THEN SeedOrderId(t) ELSE NullOrder]
    /\ status = [t \in TaskIds |-> IF t \in BoardRows THEN SeedStatus(t) ELSE NullStatus]
    /\ title = [t \in TaskIds |-> IF t \in BoardRows THEN SeedTitle(t) ELSE NullTitle]
    /\ nextOrderId = Cardinality(BoardRows) + 1
    /\ now = ReplayStartsAt
    /\ lastTick = ReplayStartsAt
    /\ call = [p \in Procs |-> IdleCall]
    /\ tick = [k \in Ticks |-> IdleTick]
    /\ req = [r \in Reqs |-> IdleReq]
    /\ store = <<>>
    /\ nextKey = 1
    /\ isFlushing = FALSE
    /\ flush = [f \in Flushers |-> IdleFlush]
    /\ net = {}
    /\ view = <<>>
    /\ cleared = 0

NextSweep ==
    \/ \E i \in Ticks : TickStart(i)
    \/ \E i \in Ticks, t \in BoardRows, k \in Kinds : ForceReleaseRead(i, t, k)
    \/ \E i \in Ticks, t \in BoardRows, k \in Kinds : ForceReleaseWrite(i, t, k)
    \/ \E i \in Ticks, t \in BoardRows, k \in Kinds : ForceReleaseEmit(i, t, k)
    \/ \E i \in Ticks : TickDragDone(i)
    \/ \E i \in Ticks : TickEditDone(i)
    \/ \E t \in BoardRows : DeleteTask(t)
    \/ ClockAdvance

SpecSweep == InitSweep /\ [][NextSweep]_vars

\* ------------------------------------------------------ the replay ends

\* A specification for progress of the replay: the client of SpecLogout, with
\* every server call answered and every IndexedDB call returning.

\* every awaited call of flushQueue and replayOne settles
FairDrain ==
    \A f \in Flushers :
        /\ WF_vars(FlushGetAll(f))
        /\ WF_vars(\E ans \in {"granted", "denied", "ok", "throws"} : FlushAnswer(f, ans))
        /\ WF_vars(FlushRemove(f))
        /\ WF_vars(FlushCount(f))
        /\ WF_vars(FlushLeftGet(f))
        /\ WF_vars(FlushLeftRemove(f))

SpecDrain == Init /\ [][NextLogout]_vars /\ FairDrain

\* ------------------------------------------------ writes under an old lock

\* A specification of the three routes that write under a lock, with the
\* scheduler running and a second user acquiring: the first user's locks are
\* one TTL old when the request arrives. One request and one acquire call.

\* the user whose requests write, and the user who acquires meanwhile
Writer == "u1"
Taker == "u2"

NextExpiry ==
    \/ \E r \in BoardReqs, t \in Seeded, st \in StatusInputs : StatusCheck(r, t, Writer, st)
    \/ \E r \in BoardReqs : StatusUpdate(r)
    \/ \E r \in BoardReqs, t \in Seeded : TitleCheck(r, t, Writer, "b")
    \/ \E r \in BoardReqs : TitleUpdate(r)
    \/ \E r \in BoardReqs, t \in Seeded : ReorderCheck(r, t, Writer, <<"T2", "T1">>)
    \/ \E r \in BoardReqs : ReorderSpread(r)
    \/ \E r \in BoardReqs : ReorderCompact(r)
    \/ \E r \in BoardReqs : ReqReleaseRead(r)
    \/ \E r \in BoardReqs : ReqReleaseWrite(r)
    \/ \E r \in BoardReqs : ReqReleaseEmit(r)
    \/ \E r \in BoardReqs : ReorderFetch(r)
    \/ \E p \in BoardCalls, t \in Seeded, k \in Kinds : AcquireRead(p, t, k, Taker)
    \/ \E p \in BoardCalls : AcquireWrite(p)
    \/ \E p \in BoardCalls : AcquireEmit(p)
    \/ \E i \in Ticks : TickStart(i)
    \/ \E i \in Ticks, t \in BoardRows, k \in Kinds : ForceReleaseRead(i, t, k)
    \/ \E i \in Ticks, t \in BoardRows, k \in Kinds : ForceReleaseWrite(i, t, k)
    \/ \E i \in Ticks, t \in BoardRows, k \in Kinds : ForceReleaseEmit(i, t, k)
    \/ \E i \in Ticks : TickDragDone(i)
    \/ \E i \in Ticks : TickEditDone(i)
    \/ ClockAdvance

SpecExpiry == InitSweep /\ [][NextExpiry]_vars

\* ------------------------------------------------ the locks a client sees

\* A specification of the lock service with one client connected throughout:
\* every io.emit is delivered at once, so the client handles the events in
\* the order of emission.

\* a card of the board as fetchTasks returned it for row t
Card(t) ==
    [id |-> t, locks |-> [k \in Kinds |-> [held |-> lock[t][k].held,
                                           by |-> lock[t][k].by]]]

\* handleLockAcquired / handleEditLockAcquired
HandleLockAcquired(prev, t, k, u) ==
    [n \in 1..Len(prev) |->
        IF prev[n].id = t
        THEN [prev[n] EXCEPT !.locks[k] = [held |-> TRUE, by |-> u]]
        ELSE prev[n]]

\* handleLockReleased / handleEditLockReleased, and handleLockExpired /
\* handleEditLockExpired, which set the same fields
HandleLockReleased(prev, t, k) ==
    [n \in 1..Len(prev) |->
        IF prev[n].id = t
        THEN [prev[n] EXCEPT !.locks[k] = [held |-> FALSE, by |-> NullUser]]
        ELSE prev[n]]

\* the board has been loaded: nobody holds a lock, no call has started
InitEvents ==
    /\ InitRows(Seeded)
    /\ now = 0
    /\ lastTick = NullTime
    /\ call = [p \in Procs |-> IdleCall]
    /\ tick = [k \in Ticks |-> IdleTick]
    /\ req = [r \in Reqs |-> IdleReq]
    /\ store = <<>>
    /\ nextKey = 1
    /\ isFlushing = FALSE
    /\ flush = [f \in Flushers |-> IdleFlush]
    /\ net = {}
    /\ view = <<Card("T1")>>
    /\ cleared = 0

\* io.emit('task:lock_acquired', ...) and the client's handler
SeenAcquireEmit(p) ==
    /\ AcquireEmits(p)
    /\ view' = HandleLockAcquired(view, call[p].task, call[p].kind, call[p].user)
    /\ UNCHANGED <<tasks, lock, now, lastTick, tick, boardVars,
                   store, nextKey, isFlushing, flush, net, cleared>>

\* io.emit('task:lock_released', ...) and the client's handler
SeenReleaseEmit(p) ==
    /\ ReleaseEmits(p)
    /\ view' = HandleLockReleased(view, call[p].task, call[p].kind)
    /\ UNCHANGED <<tasks, lock, now, lastTick, tick, boardVars,
                   store, nextKey, isFlushing, flush, net, cleared>>

\* io.emit('task:lock_expired', ...) and the client's handler
SeenForceReleaseEmit(i, t, k) ==
    /\ ForceReleaseEmits(i, t, k)
    /\ view' = HandleLockReleased(view, t, k)
    /\ UNCHANGED <<tasks, lock, now, lastTick, call, boardVars,
                   store, nextKey, isFlushing, flush, net, cleared>>

NextEvents ==
    \/ \E p \in Procs, t \in Seeded, u \in Users : AcquireRead(p, t, "drag", u)
    \/ \E p \in Procs : AcquireWrite(p)
    \/ \E p \in Procs : SeenAcquireEmit(p)
    \/ \E p \in Procs, t \in Seeded, u \in Users : ReleaseRead(p, t, "drag", u)
    \/ \E p \in Procs : ReleaseWrite(p)
    \/ \E p \in Procs : SeenReleaseEmit(p)
    \/ \E i \in Ticks, t \in Seeded, k \in Kinds : ForceReleaseRead(i, t, k)
    \/ \E i \in Ticks, t \in Seeded, k \in Kinds : ForceReleaseWrite(i, t, k)
    \/ \E i \in Ticks, t \in Seeded, k \in Kinds : SeenForceReleaseEmit(i, t, k)
    \/ \E i \in Ticks : TickStart(i)
    \/ \E i \in Ticks : TickDragDone(i)
    \/ \E i \in Ticks : TickEditDone(i)
    \/ ClockAdvance

SpecEvents == InitEvents /\ [][NextEvents]_vars

\* ------------------------------------------------------ a page reload

\* A specification of the client across a reload of the page: the IndexedDB
\* store outlives the page, the hook's isFlushing ref and the flushQueue call
\* in progress do not, and a request already sent is still served.

\* the page is reloaded while the flushQueue call of slot f is in progress:
\* the call is gone with the page; a mutation request it was awaiting has
\* reached the server, which applies it, or has not; the new page's hook
\* starts with useRef(false) and an empty board
Reload(f) ==
    /\ flush[f].pc \notin {"idle", "done"}
    /\ \E served \in BOOLEAN :
        flush' = [flush EXCEPT ![f] =
            Finished(IF served /\ flush[f].pc = "call" /\ flush[f].step = "mutate"
                     THEN Writes(flush[f], "ok")
                     ELSE flush[f])]
    /\ net' = net \ Awaited(f, flush[f])
    /\ isFlushing' = FALSE
    /\ view' = <<>>
    /\ UNCHANGED <<tasks, lock, now, lastTick, call, tick, boardVars,
                   store, nextKey, cleared>>

NextReload ==
    \/ \E ev \in LogoutEvents : Enqueue(ev)
    \/ \E f \in Flushers : Reload(f)
    \/ \E f \in Flushers : FlushStart(f)
    \/ \E f \in Flushers : FlushGetAll(f)
    \/ \E f \in Flushers, ans \in {"granted", "denied", "ok", "throws"} :
            FlushAnswer(f, ans)
    \/ \E f \in Flushers : FlushRemove(f)
    \/ \E f \in Flushers : FlushCount(f)
    \/ \E f \in Flushers : FlushLeftGet(f)
    \/ \E f \in Flushers : FlushLeftRemove(f)

SpecReload == Init /\ [][NextReload]_vars

\* --------------------------------------------------- a delete made offline

\* removeOptimisticTask: setTasks((prev) => prev.filter((t) => t.id !== id))
RemoveOptimisticTask(prev, id) == SelectSeq(prev, LAMBDA c : c.id # id)

\* TaskCard.handleDelete while offline, on the n-th card of the board: a
\* DELETE_TASK is queued unless the card is a placeholder, and the card is
\* taken off the board; the queue is otherwise left as it is. The client is
\* offline: no flushQueue call is running.
OfflineDelete(n) ==
    /\ n \in 1..Len(view)
    /\ ~isFlushing
    /\ IF view[n].opt
       THEN UNCHANGED <<store, nextKey>>
       ELSE /\ nextKey <= MaxEvents
            /\ store' = Added(QueuedEvent("DELETE_TASK", view[n].id, NullUser,
                                          NullStatus, <<>>))
            /\ nextKey' = nextKey + 1
    /\ view' = RemoveOptimisticTask(view, view[n].id)
    /\ UNCHANGED <<tasks, lock, now, lastTick, call, tick, boardVars,
                   isFlushing, flush, net, cleared>>

\* tasks are created and deleted offline, and the queue is replayed
NextUndo ==
    \/ \E ti \in Titles : OfflineCreate(ti)
    \/ \E n \in 1..MaxEvents : OfflineDelete(n)
    \/ \E f \in Flushers : FlushStart(f)
    \/ \E f \in Flushers : FlushGetAll(f)
    \/ \E f \in Flushers, ans \in {"ok", "throws"} : FlushAnswer(f, ans)
    \/ \E f \in Flushers : FlushRemove(f)
    \/ \E f \in Flushers : FlushCount(f)
    \/ \E f \in Flushers : FlushLeftGet(f)
    \/ \E f \in Flushers : FlushLeftRemove(f)

SpecUndo == Init /\ [][NextUndo]_vars

\* ------------------------------------------- a delete under another's lock

\* the DELETE_TASK the client of the replaying user has queued
DeleteEvents == {QueuedEvent("DELETE_TASK", t, NullUser, NullStatus, <<>>) : t \in Seeded}

\* replayOne DELETE_TASK: await deleteTask(taskId); DELETE /:id reaches the
\* server, prisma.task.delete removes the row and the route answers 200
ServeDelete ==
    /\ ReplayAt("DELETE_TASK", "mutate")
    /\ DeleteRow(ReplayEntry.task)
    /\ Moves(Replayer, AfterAnswer(Writes(flush[Replayer], "ok"), "ok"))
    /\ UNCHANGED <<now, lastTick, call, tick, nextOrderId, store, nextKey,
                   view, cleared>>

\* prisma.task.delete throws for a row that is gone: the catch answers 500
ServeDeleteMissing ==
    /\ ReplayAt("DELETE_TASK", "mutate")
    /\ ReplayEntry.task \notin tasks
    /\ FlushAnswer(Replayer, "throws")

\* the client of Writer replays queued deletes while Taker takes the drag lock
\* of the row and the scheduler runs
NextDelete ==
    \/ \E ev \in DeleteEvents : ReplayEnqueue(ev)
    \/ FlushStart(Replayer)
    \/ FlushGetAll(Replayer)
    \/ ServeDelete
    \/ ServeDeleteMissing
    \/ FlushRemove(Replayer)
    \/ FlushCount(Replayer)
    \/ FlushLeftGet(Replayer)
    \/ FlushLeftRemove(Replayer)
    \/ \E p \in BoardCalls, t \in Seeded : AcquireRead(p, t, "drag", Taker)
    \/ \E p \in BoardCalls : AcquireWrite(p)
    \/ \E p \in BoardCalls : AcquireEmit(p)
    \/ \E i \in Ticks : TickStart(i)
    \/ \E i \in Ticks, t \in Seeded : ForceReleaseRead(i, t, "drag")
    \/ \E i \in Ticks, t \in Seeded : ForceReleaseWrite(i, t, "drag")
    \/ \E i \in Ticks, t \in Seeded : ForceReleaseEmit(i, t, "drag")
    \/ \E i \in Ticks : TickDragDone(i)
    \/ \E i \in Ticks : TickEditDone(i)
    \/ ClockAdvance

SpecDelete == InitReplay /\ [][NextDelete]_vars

\* ------------------------------------------------------------------- claims

\* call p starts with this step, as a call of op
StartsCall(p, op) == call[p].pc = "idle" /\ call'[p].op = op

\* the lock row call p is about, before the step that starts p
TargetRow(p) == lock[call'[p].task][call'[p].kind]

ExpiredEvent(k) == IF k = "drag" THEN "task:lock_expired" ELSE "task:edit_lock_expired"

\* C1: two acquire calls by distinct users that both read the same lock free,
\* with no release or force-release of that lock since either read, never both
\* return success:true
C1_NoDoubleAcquire ==
    \A p, q \in Procs :
        ~ ( /\ p # q
            /\ call[p].op = "acquire" /\ call[q].op = "acquire"
            /\ call[p].task = call[q].task /\ call[p].kind = call[q].kind
            /\ call[p].user # call[q].user
            /\ call[p].saw = "free" /\ call[q].saw = "free"
            /\ ~call[p].freed /\ ~call[q].freed
            /\ call[p].ret = "true" /\ call[q].ret = "true" )

\* C2: the write of release(e, h1) is never applied to a lock that is held by
\* a different holder h2 at that moment
C2_ReleaseFreesOnlyOwnLock ==
    [][\A p \in Procs :
        (call[p].op = "release" /\ call[p].pc = "write" /\ call'[p].pc = "emit")
        => ~ ( /\ lock[call[p].task][call[p].kind].held
               /\ lock[call[p].task][call[p].kind].by # call[p].user )]_vars

\* C3: the write of a scheduler force-release is never applied to a lock that
\* was acquired less than the TTL (2 minutes) ago
C3_ForceReleaseOnlyExpired ==
    [][\A i \in Ticks, t \in TaskIds, k \in Kinds :
        (tick[i].fr[t][k].pc = "write" /\ tick'[i].fr[t][k].pc = "emit"
            /\ lock[t][k].held)
        => lock[t][k].at < now - 120000]_vars

\* C4: release(e, h2) on a lock held by h1 # h2 returns false, leaves the lock
\* row as it is and emits no event, then or later
C4_NonHolderReleaseNoOp ==
    [][\A p \in Procs :
        /\ (StartsCall(p, "release") /\ call'[p].task \in tasks
                /\ TargetRow(p).held /\ TargetRow(p).by # call'[p].user)
           => /\ call'[p].pc = "done" /\ call'[p].ret = "false"
              /\ call'[p].emitted = "none"
              /\ lock' = lock
        /\ (call[p].op = "release" /\ call[p].pc = "done" /\ call[p].ret = "false")
           => /\ call'[p].pc = "done" /\ call'[p].ret = "false"
              /\ call'[p].emitted = "none"]_vars

C4_Witness ==
    \E p \in Procs :
        /\ call[p].op = "release" /\ call[p].pc = "done" /\ call[p].ret = "false"
        /\ call[p].saw = "other" /\ call[p].emitted = "none"
        /\ lock[call[p].task][call[p].kind].held
        /\ lock[call[p].task][call[p].kind].by # call[p].user

\* C5: acquire(e, h) on a lock held by h returns success and no step of that
\* call changes any lock row: holder and acquiredAt stay as they are
C5_ReacquireKeepsTimestamp ==
    [][\A p \in Procs :
        /\ (StartsCall(p, "acquire") /\ call'[p].task \in tasks
                /\ TargetRow(p).held /\ TargetRow(p).by = call'[p].user)
           => /\ call'[p].ret = "true" /\ call'[p].pc = "emit"
              /\ lock' = lock
        /\ (call[p].op = "acquire" /\ call[p].saw = "self"
                /\ call'[p].pc # call[p].pc)
           => /\ call'[p].ret = "true" /\ call'[p].pc = "done"
              /\ lock' = lock]_vars

\* the holder has acquired and then re-acquired twice, at a later instant
C5_Witness ==
    \E p, q, r \in Procs :
        /\ p # q /\ q # r /\ p # r
        /\ call[p].op = "acquire" /\ call[p].saw = "free" /\ call[p].pc = "done"
        /\ call[q].op = "acquire" /\ call[q].saw = "self" /\ call[q].pc = "done"
        /\ call[r].op = "acquire" /\ call[r].saw = "self" /\ call[r].pc = "done"
        /\ call[q].ret = "true" /\ call[r].ret = "true"
        /\ lock[call[p].task][call[p].kind].held
        /\ lock[call[p].task][call[p].kind].by = call[q].user
        /\ lock[call[p].task][call[p].kind].at < now

\* C6: acquire(e, h2) on a lock held by h1 # h2 returns success:false with
\* lockedBy h1, leaves the lock row as it is and emits no event
C6_DeniedAcquire ==
    [][\A p \in Procs :
        /\ (StartsCall(p, "acquire") /\ call'[p].task \in tasks
                /\ TargetRow(p).held /\ TargetRow(p).by # call'[p].user)
           => /\ call'[p].pc = "done" /\ call'[p].ret = "false"
              /\ call'[p].lockedBy = TargetRow(p).by
              /\ call'[p].emitted = "none"
              /\ lock' = lock
        /\ (call[p].op = "acquire" /\ call[p].pc = "done" /\ call[p].ret = "false")
           => /\ call'[p].pc = "done" /\ call'[p].ret = "false"
              /\ call'[p].lockedBy = call[p].lockedBy
              /\ call'[p].emitted = "none"]_vars

C6_Witness ==
    \E p \in Procs :
        /\ call[p].op = "acquire" /\ call[p].pc = "done" /\ call[p].ret = "false"
        /\ call[p].lockedBy \in Users /\ call[p].lockedBy # call[p].user
        /\ lock[call[p].task][call[p].kind].held
        /\ lock[call[p].task][call[p].kind].by = call[p].lockedBy

\* C7: forceRelease that finds the lock held, whoever holds it, goes on to its
\* update; the update on an existing row leaves the lock FREE (flag, holder and
\* acquire time cleared); the call then emits the expired event of its kind
\* and returns true
C7_ForceReleaseUnconditional ==
    [][\A i \in Ticks, t \in TaskIds, k \in Kinds :
        /\ (tick[i].fr[t][k].pc = "read" /\ tick'[i].fr[t][k].pc # "read"
                /\ t \in tasks /\ lock[t][k].held)
           => tick'[i].fr[t][k].pc = "write"
        /\ (tick[i].fr[t][k].pc = "write" /\ tick'[i].fr[t][k].pc # "write"
                /\ t \in tasks)
           => /\ tick'[i].fr[t][k].pc = "emit"
              /\ lock'[t][k] = [held |-> FALSE, by |-> NullUser, at |-> NullTime]
        /\ (tick[i].fr[t][k].pc = "emit" /\ tick'[i].fr[t][k].pc # "emit")
           => /\ tick'[i].fr[t][k].pc = "done"
              /\ tick'[i].fr[t][k].ret = "true"
              /\ tick'[i].fr[t][k].emitted = ExpiredEvent(k)]_vars

C7_Witness ==
    \E i \in Ticks, t \in tasks, k \in Kinds :
        /\ tick[i].fr[t][k].pc = "done" /\ tick[i].fr[t][k].ret = "true"
        /\ tick[i].fr[t][k].emitted = ExpiredEvent(k)
        /\ ~lock[t][k].held

\* C8: a scheduler callback that fires at `now` starts a forceReleaseLock call
\* for exactly the position locks held with acquiredAt < now - 2 minutes, and
\* leaves a lock with acquiredAt >= now - 2 minutes as it is; a position lock
\* older than the callback's threshold stays held only while that call is
\* pending, and the call that frees it emits task:lock_expired
C8_TickExpiresByThreshold ==
    /\ [](\A i \in Ticks, t \in tasks :
            (tick[i].phase # "idle" /\ lock[t]["drag"].held
                /\ lock[t]["drag"].at < tick[i].threshold)
            => tick[i].fr[t]["drag"].pc \in {"read", "write"})
    /\ [][\A i \in Ticks, t \in TaskIds :
            /\ (tick[i].fr[t]["drag"].pc # "read" /\ tick'[i].fr[t]["drag"].pc = "read")
               => /\ lastTick' = now
                  /\ tick'[i].threshold = now - 120000
                  /\ t \in tasks /\ lock[t]["drag"].held
                  /\ lock[t]["drag"].at < now - 120000
            /\ (lastTick' # lastTick /\ tick'[i].phase = "drag" /\ t \in tasks
                    /\ lock[t]["drag"].held /\ lock[t]["drag"].at >= now - 120000)
               => /\ tick'[i].fr[t]["drag"].pc = "none"
                  /\ lock' = lock
            /\ (tick[i].fr[t]["drag"].pc = "emit" /\ tick'[i].fr[t]["drag"].pc = "done")
               => tick'[i].fr[t]["drag"].emitted = "task:lock_expired"]_vars

C8_Witness ==
    \E i \in Ticks, t \in tasks :
        /\ tick[i].fr[t]["drag"].pc = "done" /\ tick[i].fr[t]["drag"].ret = "true"
        /\ tick[i].fr[t]["drag"].emitted = "task:lock_expired"
        /\ tick[i].threshold >= 0
        /\ ~lock[t]["drag"].held

\* C9: with clients that only issue acquire calls and never release, and the
\* scheduler running, every held lock eventually becomes FREE; an acquire that
\* then finds it free goes on to its update, which makes the caller the holder
\* since that instant and returns success
C9_NoStarvation ==
    /\ \A t \in Seeded, k \in Kinds : lock[t][k].held ~> ~lock[t][k].held
    /\ [][\A p \in Procs :
            /\ (StartsCall(p, "acquire") /\ call'[p].task \in tasks
                    /\ ~TargetRow(p).held)
               => call'[p].pc = "write"
            /\ (call[p].op = "acquire" /\ call[p].pc = "write"
                    /\ call'[p].pc # "write" /\ call[p].task \in tasks)
               => /\ call'[p].ret = "true"
                  /\ lock'[call[p].task][call[p].kind]
                        = [held |-> TRUE, by |-> call[p].user, at |-> now]]_vars

\* one user has taken the lock and polled it; after its expiry another user's
\* acquire has succeeded
C9_Witness ==
    \E p, q \in Procs, t \in Seeded, k \in Kinds :
        /\ call[p].op = "acquire" /\ call[p].task = t /\ call[p].kind = k
        /\ call[p].saw = "self" /\ call[p].pc = "done"
        /\ call[q].op = "acquire" /\ call[q].task = t /\ call[q].kind = k
        /\ call[q].saw = "free" /\ call[q].ret = "true"
        /\ call[q].user # call[p].user
        /\ lock[t][k].held /\ lock[t][k].by = call[q].user
        /\ lock[t][k].at > LOCK_EXPIRY_MS

\* C10: in every reachable state, for both lock kinds of every task: if the
\* held flag is false then the holder id is null and the acquire time is null
C10_FreeLockHasNoHolder ==
    \A t \in tasks, k \in Kinds :
        ~lock[t][k].held => lock[t][k].by = NullUser /\ lock[t][k].at = NullTime

\* a lock that was held has been released by its holder
C10_Witness ==
    \E p \in Procs :
        /\ call[p].op = "release" /\ call[p].pc = "done" /\ call[p].ret = "true"
        /\ call[p].task \in tasks
        /\ ~lock[call[p].task][call[p].kind].held

\* C11: every change of a lock sub-record of a row that stays is one of the
\* transitions of the lock state machine: FREE to HELD(h, now) by the update of
\* acquire(h); HELD(h) to FREE by the update of release(h), of the same h; or
\* HELD(h) to FREE by the update of a force-release. In particular a held lock
\* never changes its holder or its acquire time while it stays held
C11_OnlySpecifiedTransitions ==
    [][\A t \in tasks \cap tasks', k \in Kinds :
        lock'[t][k] # lock[t][k] =>
            \/ /\ ~lock[t][k].held
               /\ \E p \in Procs :
                    /\ call[p].op = "acquire" /\ call[p].pc = "write"
                    /\ call'[p].pc = "emit"
                    /\ call[p].task = t /\ call[p].kind = k
                    /\ lock'[t][k] = [held |-> TRUE, by |-> call[p].user, at |-> now]
            \/ /\ lock[t][k].held
               /\ lock'[t][k] = [held |-> FALSE, by |-> NullUser, at |-> NullTime]
               /\ \/ \E p \in Procs :
                        /\ call[p].op = "release" /\ call[p].pc = "write"
                        /\ call'[p].pc = "emit"
                        /\ call[p].task = t /\ call[p].kind = k
                        /\ call[p].user = lock[t][k].by
                  \/ \E i \in Ticks :
                        /\ tick[i].fr[t][k].pc = "write"
                        /\ tick'[i].fr[t][k].pc = "emit"]_vars

OtherKind(k) == IF k = "drag" THEN "edit" ELSE "drag"

\* C12: a step of an acquire or release call, or of a force-release, of one
\* lock kind leaves the other kind's lock of every row as it is, and so does
\* every step of the scheduler callback itself; an acquire that finds its own
\* kind free while the other kind of the same task is held by another user
\* goes on to its update and succeeds
C12_KindsIndependent ==
    [][/\ \A p \in Procs :
            (call'[p].pc # call[p].pc /\ call'[p].op # "none")
            => \A t \in TaskIds :
                    lock'[t][OtherKind(call'[p].kind)] = lock[t][OtherKind(call'[p].kind)]
       /\ \A i \in Ticks, t \in TaskIds, k \in Kinds :
            (tick'[i].fr[t][k].pc # tick[i].fr[t][k].pc)
            => \A x \in TaskIds : lock'[x][OtherKind(k)] = lock[x][OtherKind(k)]
       /\ \A i \in Ticks : tick'[i].phase # tick[i].phase => lock' = lock
       /\ \A p \in Procs :
            (StartsCall(p, "acquire") /\ call'[p].task \in tasks
                /\ ~TargetRow(p).held
                /\ lock[call'[p].task][OtherKind(call'[p].kind)].held
                /\ lock[call'[p].task][OtherKind(call'[p].kind)].by # call'[p].user)
            => call'[p].pc = "write"
       /\ \A p \in Procs :
            (call[p].op = "acquire" /\ call[p].pc = "write"
                /\ call'[p].pc # "write" /\ call[p].task \in tasks)
            => call'[p].ret = "true"]_vars

\* one user holds the position lock of a task and another user has acquired
\* its edit lock meanwhile
C12_Witness ==
    \E p \in Procs, t \in tasks :
        /\ call[p].op = "acquire" /\ call[p].task = t /\ call[p].kind = "edit"
        /\ call[p].saw = "free" /\ call[p].ret = "true" /\ call[p].pc = "done"
        /\ lock[t]["edit"].held /\ lock[t]["edit"].by = call[p].user
        /\ lock[t]["drag"].held /\ lock[t]["drag"].by # call[p].user
        /\ lock[t]["drag"].at <= lock[t]["edit"].at

\* the ids of a list are pairwise distinct
DistinctIds(ids) == \A i, j \in 1..Len(ids) : i # j => ids[i] # ids[j]

\* the list names every row of S, each once
OrdersAll(ids, S) == DistinctIds(ids) /\ InBatch(ids) = S

\* every listed row has the index of its place in the list
Placed(ids) == \A i \in 1..Len(ids) : orderId[ids[i]] = i

\* C13: a reorder request that has answered 200, with pairwise distinct
\* orderedIds and no write by any other handler since it arrived, leaves every
\* listed row with orderId equal to its 1-based place in orderedIds, so that the
\* indices of the listed rows are exactly 1..N; and such a request whose listed
\* rows all existed when it arrived does not end in an internal error
C13_ReorderDense ==
    \A r \in Reqs :
        (req[r].op = "reorder" /\ req[r].pc = "done" /\ ~req[r].dirty)
        => /\ (req[r].ret = "200" /\ DistinctIds(req[r].ids))
              => /\ Placed(req[r].ids)
                 /\ {orderId[x] : x \in InBatch(req[r].ids)} = 1..Len(req[r].ids)
           /\ req[r].ret = "500"
              => \E x \in InBatch(req[r].ids) : req[r].before[x] = NullOrder

\* three rows have been put in an order that is not the one they had
C13_Witness ==
    \E r \in Reqs :
        /\ req[r].op = "reorder" /\ req[r].pc = "done" /\ req[r].ret = "200"
        /\ ~req[r].dirty
        /\ Len(req[r].ids) = 3 /\ DistinctIds(req[r].ids)
        /\ req[r].ids[1] = "T3"
        /\ orderId = [t \in TaskIds |-> IF t = "T3" THEN 1 ELSE req[r].before[t] + 1]
        /\ req[r].before # orderId

\* C14: no step of a reorder request whose orderedIds is not a list of every
\* row of the dragged task's column, each once, changes any orderId, and the
\* request does not answer 200
C14_RejectsPartialOrDuplicate ==
    [][\A r \in Reqs :
        (req[r].op = "reorder" /\ req[r].pc # "done"
            /\ ~OrdersAll(req[r].ids, req[r].col)
            /\ req'[r].pc # req[r].pc)
        => orderId' = orderId /\ req'[r].ret # "200"]_vars

\* C15: whenever no reorder request is in progress, the rows of one column
\* have pairwise distinct orderIds
C15_ColumnIndicesDistinct ==
    (\A r \in Reqs : req[r].op = "reorder" => req[r].pc = "done")
    => \A x, y \in tasks :
            (x # y /\ status[x] = status[y]) => orderId[x] # orderId[y]

\* a request of PATCH /reorder arrives with this step
StartsReorder(r) == req[r].pc = "idle" /\ req'[r].op = "reorder"

\* C16: a reorder request for an existing dragged task whose position lock is
\* free or held by another user answers 403 at once: that step changes no
\* orderId and no lock and emits nothing, and the request takes no further step
C16_ReorderNeedsLock ==
    [][\A r \in Reqs :
        /\ (StartsReorder(r) /\ req'[r].task \in tasks
                /\ ~(lock[req'[r].task]["drag"].held
                        /\ lock[req'[r].task]["drag"].by = req'[r].user))
           => /\ req'[r].pc = "done" /\ req'[r].ret = "403"
              /\ req'[r].emitted = <<>>
              /\ orderId' = orderId /\ lock' = lock
        /\ (req[r].op = "reorder" /\ req[r].ret = "403")
           => /\ req'[r].pc = "done" /\ req'[r].ret = "403"
              /\ req'[r].emitted = <<>>]_vars

\* a reorder on a task whose position lock another user holds was refused
C16_Witness ==
    \E r \in Reqs :
        /\ req[r].op = "reorder" /\ req[r].pc = "done" /\ req[r].ret = "403"
        /\ req[r].emitted = <<>>
        /\ req[r].task \in tasks
        /\ lock[req[r].task]["drag"].held
        /\ lock[req[r].task]["drag"].by # req[r].user

\* a request that has written nothing: it has not arrived, or it was rejected
\* at the check
WroteNothing(q) == q.pc = "idle" \/ (q.pc = "done" /\ q.ret \in {"403", "404"})

\* C17: once two reorder requests of different users, on different dragged
\* tasks, both past the lock check, over the same set of N pairwise distinct
\* ids, have both ended, and they are the only requests that have written, the
\* listed rows have the indices 1..N in the order one of the two requests
\* asked for
C17_ConcurrentReordersOneWins ==
    \A r, q \in Reqs :
        ( /\ r # q
          /\ \A p \in Reqs \ {r, q} : WroteNothing(req[p])
          /\ req[r].op = "reorder" /\ req[q].op = "reorder"
          /\ req[r].pc = "done" /\ req[q].pc = "done"
          /\ req[r].ret \in {"200", "500"} /\ req[q].ret \in {"200", "500"}
          /\ req[r].user # req[q].user /\ req[r].task # req[q].task
          /\ DistinctIds(req[r].ids) /\ DistinctIds(req[q].ids)
          /\ InBatch(req[r].ids) = InBatch(req[q].ids) )
        => /\ Placed(req[r].ids) \/ Placed(req[q].ids)
           /\ {orderId[x] : x \in InBatch(req[r].ids)} = 1..Len(req[r].ids)

\* two users have reordered the three rows at once, in different orders, and
\* both requests have answered 200
C17_Witness ==
    \E r, q \in Reqs :
        /\ r # q
        /\ req[r].op = "reorder" /\ req[q].op = "reorder"
        /\ req[r].ret = "200" /\ req[q].ret = "200"
        /\ req[r].user # req[q].user /\ req[r].task # req[q].task
        /\ Len(req[r].ids) = 3 /\ InBatch(req[r].ids) = InBatch(req[q].ids)
        /\ req[r].ids # req[q].ids
        /\ req[r].before = req[q].before
        /\ Placed(req[q].ids)

\* C18: when a reorder request has ended in an internal error, every row that
\* existed when it arrived and still exists has the orderId it had then, and no
\* row is left with an index of the offset range
C18_AbortLeavesNoPartialState ==
    \A r \in Reqs :
        (req[r].op = "reorder" /\ req[r].pc = "done" /\ req[r].ret = "500")
        => \A t \in tasks :
                /\ orderId[t] <= 100000
                /\ req[r].before[t] # NullOrder => orderId[t] = req[r].before[t]

\* a flushQueue call that has passed the isFlushing test and not yet returned
Replaying(fl) == fl.pc \notin {"idle", "done"}

\* C19: at most one flushQueue call of a client is replaying at any time, and
\* a flushQueue call made while another one is replaying returns at once: it
\* reads no queue entry, replays none, issues no server call and leaves the
\* store and the isFlushing flag as they were.
C19_SingleFlight ==
    [][/\ Cardinality({f \in Flushers : Replaying(flush'[f])}) <= 1
       /\ \A f \in Flushers :
            (/\ flush[f].pc = "idle"
             /\ flush'[f].pc # "idle"
             /\ \E g \in Flushers : g # f /\ Replaying(flush[g]))
            => /\ flush'[f] = [IdleFlush EXCEPT !.pc = "done", !.noop = TRUE]
               /\ store' = store
               /\ net' = net
               /\ isFlushing' = isFlushing
               /\ \A g \in Flushers : g # f => flush'[g] = flush[g]]_vars

\* a second flushQueue call has returned at the test while the first one
\* awaits the server's answer for a queue entry
C19_Witness ==
    \E f, g \in Flushers :
        /\ flush[f].pc = "call"
        /\ flush[g].noop
        /\ flush[g].pc = "done"

\* C20: when a replay starts on an entry, every entry of its snapshot that was
\* enqueued before it has been replayed and none that was enqueued after it,
\* and no server call of another entry is awaiting its answer; at no time do
\* server calls of two entries of one replay await their answers.
C20_FifoSequential ==
    [][\A f \in Flushers :
        /\ \A c, d \in net' : c.flush = f /\ d.flush = f => c = d
        /\ \A k \in flush'[f].attempted \ flush[f].attempted :
            /\ \A i \in 1..Len(flush'[f].events) :
                LET e == flush'[f].events[i]
                IN /\ e.id < k => e.id \in flush[f].attempted
                   /\ e.id > k => e.id \notin flush'[f].attempted
            /\ \A c \in net' : c.flush = f => c.key = k]_vars

\* a replay of three entries enqueued at two different times has reached the
\* release call of the third one
C20_Witness ==
    \E f \in Flushers :
        /\ flush[f].pc = "call"
        /\ flush[f].step = "release"
        /\ Len(flush[f].events) = 3
        /\ flush[f].i = 3
        /\ flush[f].events[1].at < flush[f].events[3].at

\* the event the claim names for an operation on a lock of kind k
Matching(k, op) ==
    (IF k = "edit" THEN "task:edit_lock_" ELSE "task:lock_") \o
    (CASE op = "acquire" -> "acquired"
       [] op = "release" -> "released"
       [] op = "forceRelease" -> "expired")

\* the event a call of the lock service that returns true has to emit
EventOf(c) == Matching(c.kind, c.op)

\* C27: a call of acquire or release has emitted, when it has returned true,
\* the one event of its kind and operation, and nothing when it has not
\* returned or has returned anything else; the same for forceRelease and the
\* expired event; and a call emits once: its event, once emitted, stays.
C27_OneEventPerSuccess ==
    [][/\ \A p \in Procs :
            /\ call'[p].emitted =
                    IF call'[p].pc = "done" /\ call'[p].ret = "true"
                    THEN EventOf(call'[p]) ELSE "none"
            /\ call[p].emitted # "none" => call'[p].emitted = call[p].emitted
       /\ \A i \in Ticks, t \in TaskIds, k \in Kinds :
            /\ tick'[i].fr[t][k].emitted =
                    IF tick'[i].fr[t][k].ret = "true"
                    THEN Matching(k, "forceRelease") ELSE "none"
            /\ tick[i].fr[t][k].emitted # "none" /\ tick'[i].phase = tick[i].phase
                    => tick'[i].fr[t][k].emitted = tick[i].fr[t][k].emitted]_vars

\* an acquire, a release and a force-release have returned true with their
\* events, and a denied call has returned without one
C27_Witness ==
    /\ \E p \in Procs :
        call[p].op = "acquire" /\ call[p].ret = "true" /\ call[p].emitted # "none"
    /\ \E p \in Procs :
        call[p].op = "release" /\ call[p].ret = "true" /\ call[p].emitted # "none"
    /\ \E p \in Procs : call[p].ret = "false" /\ call[p].emitted = "none"
    /\ \E i \in Ticks, t \in TaskIds, k \in Kinds :
        tick[i].fr[t][k].ret = "true" /\ tick[i].fr[t][k].emitted # "none"

\* C29: an acquire on a task id that has no row ends at its read with
\* NotFound, and the step changes no lock and emits nothing
C29_AcquireMissingNotFound ==
    [][\A p \in Procs :
        (/\ call[p].pc = "idle"
         /\ call'[p].op = "acquire"
         /\ call'[p].task \notin tasks)
        => /\ call'[p].pc = "done"
           /\ call'[p].ret = "notfound"
           /\ call'[p].emitted = "none"
           /\ lock' = lock]_vars

\* an acquire on a deleted task has answered NotFound
C29_Witness ==
    \E p \in Procs :
        /\ call[p].op = "acquire"
        /\ call[p].pc = "done"
        /\ call[p].ret = "notfound"
        /\ call[p].task \notin tasks

\* the forceRelease calls that have returned true on lock (t, k), and one
\* more when a release call of a client has
FreedBy(t, k) ==
    Cardinality({i \in Ticks : tick[i].fr[t][k].ret = "true"})
    + (IF \E p \in Procs : /\ call[p].op = "release"
                           /\ call[p].task = t /\ call[p].kind = k
                           /\ call[p].ret = "true"
       THEN 1 ELSE 0)

\* the holds of lock (t, k): the acquires that found it free and took it
HoldsOf(t, k) ==
    Cardinality({p \in Procs : /\ call[p].op = "acquire"
                               /\ call[p].task = t /\ call[p].kind = k
                               /\ call[p].saw = "free"
                               /\ call[p].ret = "true"})

\* C30: a hold of a lock is freed once: of the forceRelease calls of the
\* scheduler and the release of a client on a lock that has had one hold, at
\* most one has returned true and emitted its event
C30_HoldFreedOnce ==
    \A t \in TaskIds, k \in Kinds :
        HoldsOf(t, k) <= 1 => FreedBy(t, k) <= 1

\* the lock a request of the status or title route needs
Needs(q) == IF q.op = "title" THEN "edit" ELSE "drag"

\* C28: a request of the status route by a user who does not hold the row's
\* position lock, or of the title route by a user who does not hold its edit
\* lock, answers 403 at its check and the step changes no field of any row and
\* no lock, whichever lock of the other kind the user holds; the request is
\* over and writes nothing later.
C28_MutationNeedsOwnLock ==
    [][\A r \in Reqs :
        /\ (/\ req[r].pc = "idle"
            /\ req'[r].op \in {"status", "title"}
            /\ req'[r].task \in tasks
            /\ ~(/\ lock[req'[r].task][Needs(req'[r])].held
                 /\ lock[req'[r].task][Needs(req'[r])].by = req'[r].user))
           => /\ req'[r].pc = "done"
              /\ req'[r].ret = "403"
              /\ req'[r].emitted = <<>>
              /\ UNCHANGED <<tasks, lock, orderId, status, title>>
        /\ req[r].pc = "done" /\ req[r].ret = "403"
           => /\ req'[r].pc = "done" /\ req'[r].ret = "403"
              /\ req'[r].emitted = <<>>]_vars

\* a status request of the user who holds only the edit lock of the row and a
\* title request of the user who holds only its position lock have both been
\* rejected
C28_Witness ==
    \E r, q \in Reqs :
        /\ req[r].op = "status" /\ req[r].ret = "403"
        /\ req[q].op = "title" /\ req[q].ret = "403"
        /\ req[r].task = req[q].task
        /\ req[r].user # req[q].user
        /\ lock[req[r].task]["edit"] = HeldLock(req[r].user, 0)
        /\ lock[req[r].task]["drag"] = HeldLock(req[q].user, 0)

\* the keys of the entries of a snapshot
Keys(events) == {events[i].id : i \in 1..Len(events)}

\* a step of the for loop of a replay: it goes on by one entry, which it has
\* not attempted before; and once the loop is over, every entry of the
\* snapshot has been attempted
EachAttemptedOnce(f) ==
    /\ flush'[f].attempted # flush[f].attempted
        => /\ flush'[f].i = flush[f].i + 1
           /\ flush'[f].events[flush'[f].i].id \notin flush[f].attempted
           /\ flush'[f].attempted =
                flush[f].attempted \cup {flush'[f].events[flush'[f].i].id}
    /\ flush'[f].pc \in {"count", "leftGet", "leftRemove", "done"}
        => flush'[f].attempted = Keys(flush'[f].events)

\* C21: an entry whose replay has failed (acquire denied, or any call of it
\* thrown) has written nothing to the database, and the replay goes on: each
\* entry of the snapshot is attempted exactly once
C21_FailureSkipsOneEntry ==
    [][\A f \in Flushers :
        /\ flush'[f].skipped \cap flush'[f].applied = {}
        /\ EachAttemptedOnce(f)]_vars

\* flush f returns from a replay of a non-empty snapshot in this step
FinishesReplay(f) ==
    /\ flush[f].pc # "done"
    /\ flush'[f].pc = "done"
    /\ flush'[f].events # <<>>

\* no entry a replay has skipped is attempted by a later replay
SkippedNeverRetried ==
    \A f, g \in Flushers : f # g => flush'[f].skipped \cap flush'[g].attempted = {}

\* C22 as stated: when a replay over a non-empty queue finishes the queue is
\* empty, and no entry it skipped is attempted by a later replay
C22_QueueEmptyAfterReplay ==
    [][/\ \A f \in Flushers : FinishesReplay(f) => store' = <<>>
       /\ SkippedNeverRetried]_vars

\* C22, amended: when a replay over a non-empty queue finishes, no entry of
\* its snapshot is in the queue, replayed or skipped, and no entry it skipped
\* is attempted by a later replay
C22_SnapshotGoneAfterReplay ==
    [][/\ \A f \in Flushers :
            FinishesReplay(f) => Keys(flush'[f].events) \cap Keys(store') = {}
       /\ SkippedNeverRetried]_vars

\* a replay has skipped an entry and finished, and the next replay has
\* replayed the entries queued since
C22_Witness ==
    \E f, g \in Flushers :
        /\ flush[f].pc = "done" /\ flush[f].skipped # {}
        /\ flush[g].pc = "done" /\ flush[g].attempted # {}
        /\ f # g

\* C23: an entry leaves the queue only by clearQueue or after a replay has
\* attempted it
C23_RemovedOnlyAfterAttempt ==
    [][\A i \in 1..Len(store) :
        store[i].id \notin Keys(store')
        => \/ cleared' # cleared
           \/ \E f \in Flushers : store[i].id \in flush[f].attempted]_vars

\* the cards of a list that have a given id
CardsWith(prev, id) == {i \in 1..Len(prev) : prev[i].id = id}

\* C24: once the create of a queued CREATE_TASK has been answered, the client
\* shows exactly one card with the id the server gave the task, and the
\* placeholder of that create is gone
C24_CreatedTaskShownOnce ==
    \A f \in Flushers : \A i \in 1..Len(flush[f].events) :
        LET ev == flush[f].events[i]
        IN (ev.type = "CREATE_TASK" /\ ev.id \in flush[f].applied)
           => /\ Cardinality(CardsWith(view, ServerTask(ev).id)) = 1
              /\ CardsWith(view, Placeholder(ev.id, ev.to).id) = {}

\* C26: once clearQueue has run, the client issues no mutation request for an
\* entry that was queued before it
C26_NoReplayAfterClear ==
    [][\A c \in net' \ net :
        c.step = "mutate" => ~(cleared # 0 /\ c.key < cleared)]_vars

\* the board after the entry: the column of a status change, the places of a
\* reorder
StateOf(ev) ==
    IF ev.type = "UPDATE_STATUS" THEN status[ev.task] = ev.to ELSE Placed(ev.ids)

\* a replay of two queued position updates of one task is over
ReplayedTwo ==
    /\ flush[Replayer].pc = "done"
    /\ ~flush[Replayer].noop
    /\ Len(flush[Replayer].events) = 2
    /\ \A n \in 1..2 : flush[Replayer].events[n].type # "UPDATE_TITLE"
    /\ tasks = BoardRows

\* C25: two queued status or position updates of the same task, replayed
\* while no other user holds its position lock, are both applied, in the order
\* they were queued: both acquires succeed, both requests are answered 200,
\* the board ends as the later entry says and the position lock ends FREE.
C25_QueuedUpdatesBothApplied ==
    ReplayedTwo =>
        LET fl == flush[Replayer]
        IN /\ fl.skipped = {}
           /\ fl.applied = Keys(fl.events)
           /\ \A n \in 1..2 :
                /\ call[n].op = "acquire" /\ call[n].ret = "true"
                /\ req[n].ret = "200"
                /\ req[n].op = (IF fl.events[n].type = "UPDATE_STATUS"
                                THEN "status" ELSE "reorder")
           /\ StateOf(fl.events[2])
           /\ lock["T1"]["drag"] = FreeLock

\* the callback of slot i and every forceRelease call it started are over
TickOver(i) == tick[i].phase = "done" /\ FrFinished(i)

\* a forceRelease call of the callback of slot i has thrown
TickFailed(i) == \E t \in TaskIds, k \in Kinds : tick[i].fr[t][k].ret = "threw"

\* C31: within one tick, a forceRelease that fails for one task does not
\* prevent the force-release of any other expired lock, of either kind: once
\* the tick is over no lock older than its threshold is left held.
C31_FailureDoesNotAbortSweep ==
    \A i \in Ticks :
        TickOver(i) /\ TickFailed(i) =>
            \A t \in tasks, k \in Kinds :
                ~(lock[t][k].held /\ lock[t][k].at < tick[i].threshold)

\* the reorder request r has gone past its two batches: it is at releaseLock,
\* at findMany, or has emitted an event
PastBatches(r) ==
    \/ req[r].pc \in {"relRead", "relWrite", "relEmit", "fetch"}
    \/ req[r].emitted # <<>>

\* C32: in a reorder request the position lock is released and task:reordered
\* is broadcast only after both the spread batch and the compact batch have
\* committed; a request one of whose batches failed has emitted nothing and
\* has left the lock as it was.
C32_ReleaseAfterBothBatches ==
    \A r \in Reqs :
        req[r].op = "reorder" =>
            /\ PastBatches(r) => req[r].batches = 2
            /\ req[r].pc = "done" /\ req[r].ret = "200" =>
                    req[r].emitted = <<"task:lock_released", "task:reordered">>
                    \/ req[r].emitted = <<"task:reordered">>

\* a reorder request whose compact batch failed after its spread batch had
\* committed: no event, and the lock is still held by the requesting user
C32_Witness ==
    \E r \in Reqs :
        /\ req[r].op = "reorder" /\ req[r].pc = "done" /\ req[r].ret = "500"
        /\ req[r].batches = 1
        /\ req[r].emitted = <<>>
        /\ req[r].task \in tasks
        /\ lock[req[r].task]["drag"].held
        /\ lock[req[r].task]["drag"].by = req[r].user

\* replayOne returns for the entry the replay is at: flushQueue goes on to
\* removeEvent, to the next entry or to countEvents
ReplayOneReturns ==
    /\ flush[Replayer].pc = "call"
    /\ \/ flush'[Replayer].pc \in {"remove", "count"}
       \/ flush'[Replayer].i # flush[Replayer].i

\* the user of entry ev holds the lock replayOne takes for it, in the
\* database db
HoldsEntryLock(db, ev) ==
    /\ db[ev.task][EntryKind(ev)].held
    /\ db[ev.task][EntryKind(ev)].by = ev.user

\* C33: when the replay of a lock-requiring queue entry finishes, with its
\* mutation applied or failed, the lock taken for it is not held by the
\* replaying user (every request having been answered).
C33_LockNotHeldAfterEntry ==
    [][ReplayOneReturns =>
            ~HoldsEntryLock(lock', flush[Replayer].events[flush[Replayer].i])]_vars

\* an entry whose mutation failed while the user held the lock: replayOne's
\* own release freed it, and the entry was skipped
C33_Witness ==
    /\ flush[Replayer].pc = "done"
    /\ flush[Replayer].skipped # {}
    /\ \E p \in Procs : call[p].op = "release" /\ call[p].ret = "true"
    /\ \A t \in tasks, k \in Kinds : ~lock[t][k].held

\* C34: the number of dropped entries reported at the end of a replay equals
\* the number of entries of the drain snapshot whose replay did not succeed.
C34_ReportedCountIsSkipped ==
    \A f \in Flushers :
        flush[f].reported # NoReport =>
            flush[f].reported = Cardinality(flush[f].skipped)

\* the flushQueue call of slot f has passed the isFlushing test
Draining(f) == flush[f].pc \notin {"idle", "done"}

\* the call of slot f is over: every entry of its snapshot has been attempted
\* and the flag is clear
Drained(f) ==
    /\ flush[f].pc = "done"
    /\ flush[f].attempted = Keys(flush[f].events)
    /\ ~isFlushing

\* C35: every replay terminates. With every server call answered, flushQueue
\* finishes after attempting each snapshot entry once and clears isFlushing
\* on every exit, so that a later call starts a new replay.
C35_ReplayTerminates ==
    /\ \A f \in Flushers : Draining(f) ~> Drained(f)
    /\ [][\A f \in Flushers :
            (flush[f].pc = "idle" /\ flush'[f].pc # "idle"
                /\ \A g \in Flushers \ {f} : ~Draining(g))
            => ~flush'[f].noop]_vars
    /\ [][\A f \in Flushers : EachAttemptedOnce(f)]_vars

\* a replay that skipped an entry has ended, and a later flushQueue call has
\* replayed the entries queued since
C35_Witness ==
    \E f, g \in Flushers :
        /\ f < g
        /\ flush[f].pc = "done" /\ flush[f].skipped # {}
        /\ flush[g].pc = "done" /\ flush[g].applied # {}
        /\ ~isFlushing

\* request r commits a write of the row's fields: the update of the status or
\* title route, or a batch of the reorder route
CommitsWrite(r) ==
    /\ req[r].pc \in {"update", "spread", "compact"}
    /\ req'[r].pc \notin {req[r].pc, "done"}

\* C36: at the moment a status, content or reorder write is committed, the
\* requesting user holds the corresponding lock of the target task.
C36_WriteUnderOwnLock ==
    [][\A r \in Reqs :
         CommitsWrite(r) =>
            /\ lock[req[r].task][ReqKind(req[r])].held
            /\ lock[req[r].task][ReqKind(req[r])].by = req[r].user]_vars

\* every lock operation has completed (and with it the delivery of its event)
AllLockCallsOver ==
    /\ \A p \in Procs : call[p].pc \in {"idle", "done"}
    /\ \A i \in Ticks : SlotFree(i)

\* C37: once all lock operations have completed and every event has been
\* delivered, in emission order, to a client connected throughout, the
\* client's view of each lock (held flag and holder) equals the store's.
C37_ViewMatchesStore ==
    AllLockCallsOver =>
        \A n \in 1..Len(view), k \in Kinds :
            /\ view[n].locks[k].held = lock[view[n].id][k].held
            /\ view[n].locks[k].by = lock[view[n].id][k].by

\* the server applies the mutation of the entry the flushQueue call of slot f
\* is at
AppliesEntry(f) ==
    /\ flush[f].pc = "call" /\ flush[f].step = "mutate"
    /\ flush'[f] # flush[f]
    /\ flush[f].events[flush[f].i].id \in flush'[f].applied

\* C38: each queued mutation is applied to the server at most once, whatever
\* the sequence of reconnects and replay triggers: an entry that is applied
\* has not been applied before, by this flushQueue call or by another.
C38_AppliedAtMostOnce ==
    [][\A f \in Flushers :
         AppliesEntry(f) =>
            \A g \in Flushers : flush[f].events[flush[f].i].id \notin flush[g].applied]_vars

\* C39: a task created while offline and deleted while still offline does not
\* exist on the server after the queue is replayed: the create of a queued
\* CREATE_TASK is applied only while the placeholder of that create is still
\* on the board.
C39_DeletedOfflineNotCreated ==
    [][\A f \in Flushers :
         (AppliesEntry(f) /\ flush[f].events[flush[f].i].type = "CREATE_TASK")
         => LET ev == flush[f].events[flush[f].i]
            IN HasId(view, Placeholder(ev.id, ev.to).id)]_vars

\* C40: a task whose position lock is held by one user cannot be deleted by a
\* different user: the row of a task is removed for the replaying user only
\* while no other user holds the drag lock of the task.
C40_NoDeleteUnderOthersLock ==
    [][\A t \in tasks \ tasks' :
         ~(lock[t]["drag"].held /\ lock[t]["drag"].by # Writer)]_vars

====
